---- MODULE Spec2Model ----
(***************************************************************************)
(* Resilience and resource-pooling core of wa-agent-mastra                 *)
(* (packages/resilience/src/index.ts): ResilientFunction (p-retry inside   *)
(* an opossum circuit breaker), MessageQueue, AgentCache and AgentPool.    *)
(*                                                                         *)
(* Each component has its own specification (SpecRF, SpecMQ, SpecCache,    *)
(* SpecPool); the variables of the other components stay at their initial  *)
(* values. AgentCache has two more: SpecCacheLru (three keys, calls that   *)
(* do not overlap, clear()) and SpecCacheTtl (no remote tier, a clock).    *)
(* SpecRF2 runs two ResilientFunction instances side by side, LiveSpecMQ   *)
(* is SpecMQ with the fairness the remote list's replies justify, SpecCP   *)
(* is the ConnectionPool, and SpecGW is the WhatsApp gateway's webhook     *)
(* handler (apps/whatsapp-gateway) with the conversational runner.         *)
(* SpecObs is a ResilientFunction with an onFailedAttempt observer and     *)
(* LiveSpecObs adds the fairness of the breaker's timer; SpecBO computes   *)
(* the backoff schedule of a retry configuration; SpecShared is an         *)
(* AgentCache and a MessageQueue on one connection.                        *)
(***************************************************************************)
EXTENDS Integers, Sequences, FiniteSets, TLC

\* ------------------------------------------------------------------ bounds
\* Upper bound on the invocations of the wrapped function that the execute()
\* calls in flight may still make: (calls in flight) * (retries + 1). With
\* retries = 0 this many calls overlap; the largest retries explored is one less.
MaxInFlightAttempts == 3
\* Largest number of execute() calls recorded in the rolling window.
MaxFires == 3
\* Messages enqueued in one behaviour.
MaxMessages == 3
\* enqueue() calls, and dequeue() calls, that may overlap.
MaxClients == 2

\* Largest config.maxSize of the local cache tier explored.
MaxCacheSize == 2
\* Cache operations that may overlap.
MaxCacheOps == 2

\* Largest maxSize of the agent pool explored.
MaxPoolSize == 3
\* Agents the creators make in one run.
MaxAgents == 5

\* execute() calls that the two instances of the isolation check have in
\* flight together.
MaxCallsOfTwo == 2

\* Pools and connections the ConnectionPool constructs in one run.
MaxInstances == 2

\* Webhook requests the gateway receives in one run.
MaxRequests == 3

\* Largest maxTimeout of the retry options explored, in ticks.
MaxBackoff == 4
\* Largest factor of the retry options explored.
MaxFactor == 2
\* Largest retries of the retry options explored for the waits.
MaxBackoffRetries == 3

\* ------------------------------------------------------- program constants
\* errorThresholdPercentage passed to the breaker by default.
ErrorThresholdPercentage == 50
\* rollingCountBuckets of the breaker under test.
RollingCountBuckets == 1
\* ttlMs of the agent pool, in ticks of the clock
PoolTtl == 2
\* config.ttlMs || 300000 of the cache, in ticks of the clock
CacheTtl == 2

VARIABLES
  \* ---- ResilientFunction
  retries,       \* retryOptions.retries of this instance
  onFailedAttempt, \* the caller's observer: "absent", "returns" or "throws"
  brState,       \* opossum STATE: "closed" | "open" | "halfOpen"
  pendingClose,  \* opossum PENDING_CLOSE: the half-open trial is still to be admitted
  window,        \* rolling window, newest bucket first
  calls,         \* execute() calls whose retry loop is still running
  settled,       \* what the latest step delivered to a caller (or nothing)
  rfActive,      \* which ResilientFunction instance the variables above describe
  rfOther,       \* the fields of the other ResilientFunction instance
  \* ---- MessageQueue
  mqClients,     \* how many enqueue() and how many dequeue() calls may overlap
  list,          \* the remote list, head first (LPUSH adds at the head)
  nextId,        \* the next id uuidv4() hands out
  enqPending,    \* enqueue() calls awaiting their LPUSH
  deqWaiting,    \* number of dequeue() calls blocked in BRPOP
  deqReplies,    \* items BRPOP popped, on their way through dequeue()
  pushedLog,     \* history: id and payload of every enqueue() that returned
  returned,      \* history: the messages dequeue() returned, in order
  mqRet,         \* what the latest step delivered to a queue caller
  \* ---- AgentCache
  hasRedis,      \* a remote tier was passed to the constructor
  cacheMax,      \* config.maxSize of the local tier
  cacheOpsMax,   \* how many cache operations may overlap
  memoryCache,   \* local tier: entries, least recently used first
  redisKeys,     \* remote tier: key -> stored string
  cacheOps,      \* cache operations awaiting the remote tier
  cacheRet,      \* what the latest step delivered to a cache caller
  \* ---- AgentPool
  poolMax,       \* maxSize
  warmAgents,    \* entries in insertion order
  agentCreators, \* session ids with a registered creator
  creating,      \* getAgent calls awaiting their creator
  nextAgent,     \* number the next created agent gets
  poolRet,       \* what the latest step delivered to a pool caller
  \* ---- ConnectionPool
  cpHandle,      \* pgPool and redis: the instance held, 0 for null
  cpNext,        \* number the next constructed instance gets
  cpProbing,     \* init calls awaiting their health probe
  cpClosing,     \* close() calls awaiting pgPool.end() or redis.quit()
  cpOk,          \* history: an init of the instance held has completed successfully
  cpRet,         \* what the latest step delivered to a ConnectionPool caller
  \* ---- WhatsApp gateway
  sessions,      \* the sessions table: session id -> provider and model_id
  agentInstance, \* the runner's module-level agent, or none
  inbound,       \* webhook handlers past their response, awaiting something
  handled,       \* number of webhook requests received
  gwRet,         \* what the latest step of a handler did
  \* ---- retry backoff
  retryOptions,  \* minTimeout, maxTimeout, factor and retries of an instance
  waited         \* the waits of the execute() in progress so far, in order

rfVars == <<retries, onFailedAttempt, brState, pendingClose, window, calls, settled>>
rf2Vars == <<rfActive, rfOther>>
mqVars == <<mqClients, list, nextId, enqPending, deqWaiting, deqReplies,
            pushedLog, returned, mqRet>>

cacheVars == <<hasRedis, cacheMax, cacheOpsMax, memoryCache, redisKeys, cacheOps, cacheRet>>

poolVars == <<poolMax, warmAgents, agentCreators, creating, nextAgent, poolRet>>

cpVars == <<cpHandle, cpNext, cpProbing, cpClosing, cpOk, cpRet>>

gwVars == <<sessions, agentInstance, inbound, handled, gwRet>>

boVars == <<retryOptions, waited>>

vars == <<rfVars, rf2Vars, mqVars, cacheVars, poolVars, cpVars, gwVars, boVars>>

\* What the steps of one component leave alone.
exceptRF == <<rf2Vars, mqVars, cacheVars, poolVars, cpVars, gwVars, boVars>>
exceptRF2 == <<mqVars, cacheVars, poolVars, cpVars, gwVars, boVars>>
exceptMQ == <<rfVars, rf2Vars, cacheVars, poolVars, cpVars, gwVars, boVars>>
exceptCache == <<rfVars, rf2Vars, mqVars, poolVars, cpVars, gwVars, boVars>>
exceptPool == <<rfVars, rf2Vars, mqVars, cacheVars, cpVars, gwVars, boVars>>
exceptCP == <<rfVars, rf2Vars, mqVars, cacheVars, poolVars, gwVars, boVars>>
exceptGW == <<rfVars, rf2Vars, mqVars, cacheVars, poolVars, cpVars, boVars>>
exceptBO == <<rfVars, rf2Vars, mqVars, cacheVars, poolVars, cpVars, gwVars>>
exceptShared == <<rfVars, rf2Vars, poolVars, cpVars, gwVars, boVars>>

\* ------------------------------------------------------------ values, errors
NoStatus == 0
NoCode == "none"

\* A value the wrapped function throws: its class, the two fields
\* isNonRetryableError reads, and its message.
Thrown(cls, statusCode, code, message) ==
  [cls |-> cls, statusCode |-> statusCode, code |-> code, message |-> message]

NoThrow == Thrown("nothing", NoStatus, NoCode, "")

\* What the wrapped function may reject with.
FnThrows ==
  { Thrown("Error", s, NoCode, "Invalid input") : s \in {400, 401, 403, 404} }
  \cup { Thrown("Error", NoStatus, c, "Invalid input") :
           c \in {"INVALID_INPUT", "AUTHENTICATION_FAILED"} }
  \cup { Thrown("Error", NoStatus, NoCode, "Network timeout"),
         Thrown("Error", 500, NoCode, "Service unavailable"),
         Thrown("TypeError", NoStatus, NoCode, "Invalid input"),
         Thrown("NonError", NoStatus, NoCode, ""),
         Thrown("NonError", 400, NoCode, "") }

\* A result as the caller of execute() sees it. `src` is who created the
\* object, `n` the attempt that produced it (0: no attempt).
Result(ok, src, cls, statusCode, code, n) ==
  [ok |-> ok, src |-> src, cls |-> cls, statusCode |-> statusCode, code |-> code, n |-> n]

NoResult == Result(FALSE, "none", "nothing", NoStatus, NoCode, 0)
Value(n) == Result(TRUE, "fn", "value", NoStatus, NoCode, n)
OpenBreakerError == Result(FALSE, "breaker", "EOPENBREAKER", NoStatus, "EOPENBREAKER", 0)
TimedOutError == Result(FALSE, "breaker", "ETIMEDOUT", NoStatus, "ETIMEDOUT", 0)
\* The very object the wrapped function threw at attempt n.
SameError(e, n) == Result(FALSE, "fn", e.cls, e.statusCode, e.code, n)
\* AbortError(error.message).originalError: a new Error with the message only.
AbortOriginalError(e, n) == Result(FALSE, "pRetry", "Error", NoStatus, NoCode, n)
\* p-retry's TypeError for a thrown value that is no Error.
NonErrorTypeError(n) == Result(FALSE, "pRetry", "TypeError", NoStatus, NoCode, n)
\* What the caller's onFailedAttempt observer threw at attempt n.
ObserverError(n) == Result(FALSE, "observer", "Error", NoStatus, NoCode, n)

\* --------------------------------------------------------- ResilientFunction
\* A variant that forgets statusCode 404.
IsNonRetryableError_Without404(e) ==
  \/ e.statusCode = 400
  \/ e.statusCode = 401
  \/ e.statusCode = 403
  \/ e.code = "INVALID_INPUT"
  \/ e.code = "AUTHENTICATION_FAILED"

IsNonRetryableError(e) ==
  \/ e.statusCode = 400
  \/ e.statusCode = 401
  \/ e.statusCode = 403
  \/ e.statusCode = 404
  \/ e.code = "INVALID_INPUT"
  \/ e.code = "AUTHENTICATION_FAILED"

RECURSIVE CountMessage(_, _, _)
\* How many of the first i errors of errs carry message msg.
CountMessage(errs, msg, i) ==
  IF i = 0 THEN 0
  ELSE (IF errs[i].message = msg THEN 1 ELSE 0) + CountMessage(errs, msg, i - 1)

RECURSIVE MainErrorIndex(_, _)
\* The error p-retry rejects with once the retries are used up, among the
\* first i errors of all attempts: the one whose message occurred most often
\* so far, the later one on a tie. 0 when there is none.
MainErrorIndex(errs, i) ==
  IF i = 0 THEN 0
  ELSE LET prev == MainErrorIndex(errs, i - 1)
           prevCount == IF prev = 0 THEN 0 ELSE CountMessage(errs, errs[prev].message, prev)
       IN IF CountMessage(errs, errs[i].message, i) >= prevCount THEN i ELSE prev

\* A variant that gives up one attempt early.
RetryDecision_OneFewer(errs, n, r) ==
  IF IsNonRetryableError(errs[n])
    THEN [retry |-> FALSE, err |-> AbortOriginalError(errs[n], n)]
  ELSE IF errs[n].cls = "NonError"
    THEN [retry |-> FALSE, err |-> NonErrorTypeError(n)]
  ELSE IF errs[n].cls = "TypeError"
    THEN [retry |-> FALSE, err |-> SameError(errs[n], n)]
  ELSE IF n < r
    THEN [retry |-> TRUE, err |-> SameError(errs[n], n)]
  ELSE [retry |-> FALSE,
        err |-> SameError(errs[MainErrorIndex(errs, n)], MainErrorIndex(errs, n))]

\* One failed attempt inside executeWithRetry: the wrapper's catch, then
\* p-retry's. errs are the errors of the attempts so far, the n-th being the
\* one just thrown. retry = TRUE: wait and try again.
RetryDecision(errs, n, r) ==
  IF IsNonRetryableError(errs[n])
    THEN [retry |-> FALSE, err |-> AbortOriginalError(errs[n], n)]
  ELSE IF errs[n].cls = "NonError"
    THEN [retry |-> FALSE, err |-> NonErrorTypeError(n)]
  ELSE IF errs[n].cls = "TypeError"
    THEN [retry |-> FALSE, err |-> SameError(errs[n], n)]
  ELSE IF n <= r
    THEN [retry |-> TRUE, err |-> SameError(errs[n], n)]
  ELSE [retry |-> FALSE,
        err |-> SameError(errs[MainErrorIndex(errs, n)], MainErrorIndex(errs, n))]

\* The arguments executeWithRetry hands to the wrapped function.
FnArgs(args) == args

\* The argument lists callers pass to execute().
Args == { <<"arg1", "arg2">> }

EmptyBucket == [fires |-> 0, failures |-> 0, successes |-> 0]

RECURSIVE SumField(_, _, _)
SumField(w, f, i) == IF i > Len(w) THEN 0 ELSE w[i][f] + SumField(w, f, i + 1)

\* circuitBreaker.stats: the sums over the window.
Stats(w) == [fires     |-> SumField(w, "fires", 1),
             failures  |-> SumField(w, "failures", 1),
             successes |-> SumField(w, "successes", 1)]

Increment(w, f) == [w EXCEPT ![1][f] = @ + 1]

\* A variant that opens as soon as the error rate reaches the threshold.
FailOpens_AtThreshold(w, st) ==
  \/ st = "halfOpen"
  \/ Stats(w).failures * 100 >= ErrorThresholdPercentage * Stats(w).fires

\* opossum fail(): open when half-open or when the error rate is above the
\* threshold (volumeThreshold is 0).
FailOpens(w, st) ==
  \/ st = "halfOpen"
  \/ Stats(w).failures * 100 > ErrorThresholdPercentage * Stats(w).fires

\* A variant in which every success closes the circuit.
OnSuccess_AlwaysCloses(st) == "closed"

\* opossum's 'success' listener: a success while half-open closes the breaker.
OnSuccess(st) == IF st = "halfOpen" THEN "closed" ELSE st

\* getState().state
GetState(st) == IF st = "open" THEN "open" ELSE IF st = "halfOpen" THEN "half-open" ELSE "closed"

\* A variant that lets calls through an open circuit.
BreakerAdmits_IgnoresOpen(st, pc) == st # "halfOpen" \/ pc

\* A variant in which the instances share one gate: an open breaker of the
\* other instance rejects as well.
BreakerAdmits_Shared(st, pc) == (st = "closed" \/ pc) /\ rfOther.brState # "open"

\* A variant that admits every call while the breaker is half-open.
BreakerAdmits_EveryHalfOpen(st, pc) == st # "open"

\* The breaker's gate in fire(): closed, or half-open with the trial not yet taken.
BreakerAdmits(st, pc) == st = "closed" \/ pc

\* The calls in flight, as a bag: call state -> how many calls are in it.
EmptyBag == [x \in {} |-> 0]
BagAdd(b, x) ==
  IF x \in DOMAIN b THEN [b EXCEPT ![x] = @ + 1]
  ELSE [y \in DOMAIN b \cup {x} |-> IF y = x THEN 1 ELSE b[y]]
BagRemove(b, x) ==
  IF b[x] = 1 THEN [y \in DOMAIN b \ {x} |-> b[y]] ELSE [b EXCEPT ![x] = @ - 1]
RECURSIVE BagSum(_, _)
BagSum(b, S) ==
  IF S = {} THEN 0 ELSE LET x == CHOOSE y \in S : TRUE IN b[x] + BagSum(b, S \ {x})
BagSize(b) == BagSum(b, DOMAIN b)
BagReplace(b, x, y) == BagAdd(BagRemove(b, x), y)

\* One execute() in flight. `errors` are the values the failed attempts threw
\* so far (p-retry's operation errors), `trial` marks the half-open trial.
Call(pc, attempts, args, invoked, caller, trial, errors) ==
  [pc |-> pc, attempts |-> attempts, args |-> args, invoked |-> invoked,
   caller |-> caller, trial |-> trial, errors |-> errors]

\* What a step delivered: ev is "resolved" / "rejected" (to the caller),
\* "discarded" (the retry loop ended after the caller was timed out) or "none".
Settled(ev, attempts, res, errors, trial) ==
  [ev |-> ev, attempts |-> attempts, res |-> res, errors |-> errors, trial |-> trial]
Nothing == Settled("none", 0, NoResult, <<>>, FALSE)

\* The two instances of the isolation check.
Instances == {"A", "B"}
\* The fields of one ResilientFunction: its retry options and its own
\* CircuitBreaker with the calls that breaker has in flight.
Instance(r, st, pc, w, cs) ==
  [retries |-> r, brState |-> st, pendingClose |-> pc, window |-> w, calls |-> cs]
\* An instance as its constructor leaves it, with retries: r.
NewInstance(r) ==
  Instance(r, "closed", FALSE, [i \in 1..RollingCountBuckets |-> EmptyBucket], EmptyBag)

InitRF ==
  /\ retries \in 0..(MaxInFlightAttempts - 1)
  /\ onFailedAttempt = "absent"
  /\ brState = "closed"
  /\ pendingClose = FALSE
  /\ window = [i \in 1..RollingCountBuckets |-> EmptyBucket]
  /\ calls = EmptyBag
  /\ settled = Nothing
  /\ rfActive = "A"
  /\ rfOther = NewInstance(0)

QuietRF ==
  /\ retries = 0
  /\ onFailedAttempt = "absent"
  /\ brState = "closed"
  /\ pendingClose = FALSE
  /\ window = [i \in 1..RollingCountBuckets |-> EmptyBucket]
  /\ calls = EmptyBag
  /\ settled = Nothing
  /\ rfActive = "A"
  /\ rfOther = NewInstance(0)

\* Two instances made with retries: 0.
InitRF2 == QuietRF

\* An instance made with or without an observer in its retry options.
InitObs ==
  /\ retries \in 0..(MaxInFlightAttempts - 1)
  /\ onFailedAttempt \in {"absent", "returns", "throws"}
  /\ brState = "closed"
  /\ pendingClose = FALSE
  /\ window = [i \in 1..RollingCountBuckets |-> EmptyBucket]
  /\ calls = EmptyBag
  /\ settled = Nothing
  /\ rfActive = "A"
  /\ rfOther = NewInstance(0)

\* A variant that also takes the result of a call that has timed out.
Counted_EvenLate(c) == c.caller \in {"waiting", "timedOut"}

\* The breaker delivers and counts the result of a call only if the call's
\* timeout has not fired before.
Counted(c) == c.caller = "waiting"

\* execute(...args) -> circuitBreaker.fire(...args)
Execute(args) ==
  /\ Stats(window).fires < MaxFires
  /\ (BagSize(calls) + 1) * (retries + 1) <= MaxInFlightAttempts
  /\ window' = Increment(window, "fires")
  /\ IF BreakerAdmits(brState, pendingClose)
       THEN /\ pendingClose' = FALSE
            /\ calls' = BagAdd(calls, Call("running", 1, args, FnArgs(args), "waiting",
                                           brState = "halfOpen", <<>>))
            /\ settled' = Nothing
       ELSE /\ settled' = Settled("rejected", 0, OpenBreakerError, <<>>, FALSE)
            /\ UNCHANGED <<pendingClose, calls>>
  /\ UNCHANGED <<retries, onFailedAttempt, brState>>

\* An attempt of the wrapped function resolves.
AttemptResolves(c) ==
  /\ c.pc = "running"
  /\ calls' = BagRemove(calls, c)
  /\ IF Counted(c)
       THEN /\ window' = Increment(window, "successes")
            /\ brState' = OnSuccess(brState)
            /\ pendingClose' = IF brState' # brState THEN FALSE ELSE pendingClose
            /\ settled' = Settled("resolved", c.attempts, Value(c.attempts), c.errors, c.trial)
       ELSE /\ settled' = Settled("discarded", c.attempts, NoResult, c.errors, c.trial)
            /\ UNCHANGED <<window, brState, pendingClose>>
  /\ UNCHANGED <<retries, onFailedAttempt, onFailedAttempt>>

\* A variant that leaves the failures p-retry aborted out of the statistics
\* (as an errorFilter option would).
BreakerFails_SkipsAborted(c, res, errors) ==
  /\ window' = IF res.src = "pRetry" /\ res.cls = "Error" THEN window
               ELSE Increment(window, "failures")
  /\ brState' = IF FailOpens(window', brState) THEN "open" ELSE brState
  /\ pendingClose' = IF brState' # brState THEN FALSE ELSE pendingClose
  /\ settled' = Settled("rejected", c.attempts, res, errors, c.trial)

\* A variant that counts one failure for every attempt the call made.
BreakerFails_PerAttempt(c, res, errors) ==
  /\ window' = [window EXCEPT ![1].failures = @ + c.attempts]
  /\ brState' = IF FailOpens(window', brState) THEN "open" ELSE brState
  /\ pendingClose' = IF brState' # brState THEN FALSE ELSE pendingClose
  /\ settled' = Settled("rejected", c.attempts, res, errors, c.trial)

\* opossum handleError -> fail(): count the failure, maybe open.
BreakerFails(c, res, errors) ==
  /\ window' = Increment(window, "failures")
  /\ brState' = IF FailOpens(window', brState) THEN "open" ELSE brState
  /\ pendingClose' = IF brState' # brState THEN FALSE ELSE pendingClose
  /\ settled' = Settled("rejected", c.attempts, res, errors, c.trial)

\* p-retry calls onFailedAttempt, and through it the caller's observer, for
\* every failed attempt that is neither aborted nor rejected as a TypeError
\* or a non-Error, the last attempt included.
ObserverCalled(e) == ~IsNonRetryableError(e) /\ e.cls = "Error"

\* An attempt of the wrapped function rejects with e. A throw of the
\* observer is caught by p-retry, which rejects with it and retries no more.
AttemptRejects(c, e) ==
  /\ c.pc = "running"
  /\ LET errs == Append(c.errors, e)
         d == IF ObserverCalled(e) /\ onFailedAttempt = "throws"
                THEN [retry |-> FALSE, err |-> ObserverError(c.attempts)]
                ELSE RetryDecision(errs, c.attempts, retries)
     IN
       IF d.retry
         THEN /\ calls' = BagReplace(calls, c, [c EXCEPT !.pc = "backoff", !.errors = errs])
              /\ settled' = Nothing
              /\ UNCHANGED <<window, brState, pendingClose>>
         ELSE /\ calls' = BagRemove(calls, c)
              /\ IF Counted(c)
                   THEN BreakerFails(c, d.err, errs)
                   ELSE /\ settled' = Settled("discarded", c.attempts, NoResult, errs, c.trial)
                        /\ UNCHANGED <<window, brState, pendingClose>>
  /\ UNCHANGED <<retries, onFailedAttempt, onFailedAttempt>>

\* The backoff wait ends and the wrapped function is invoked again.
BackoffEnds(c) ==
  /\ c.pc = "backoff"
  /\ calls' = BagReplace(calls, c, [c EXCEPT !.pc = "running",
                                             !.attempts = @ + 1,
                                             !.invoked = FnArgs(c.args)])
  /\ settled' = Nothing
  /\ UNCHANGED <<retries, onFailedAttempt, brState, pendingClose, window>>

\* A variant in which the timeout also ends the retry loop.
CallTimeout_Cancels(c) ==
  /\ c.caller = "waiting"
  /\ calls' = BagRemove(calls, c)
  /\ BreakerFails(c, TimedOutError, c.errors)
  /\ UNCHANGED <<retries, onFailedAttempt>>

\* The breaker's `timeout` elapses before the retried operation settled.
CallTimeout(c) ==
  /\ c.caller = "waiting"
  /\ calls' = BagReplace(calls, c, [c EXCEPT !.caller = "timedOut"])
  /\ BreakerFails(c, TimedOutError, c.errors)
  /\ UNCHANGED <<retries, onFailedAttempt, onFailedAttempt>>

\* resetTimeout elapses after the breaker opened.
ResetTimer ==
  /\ brState = "open"
  /\ brState' = "halfOpen"
  /\ pendingClose' = TRUE
  /\ settled' = Nothing
  /\ UNCHANGED <<retries, onFailedAttempt, window, calls>>

\* The rolling window drops its oldest bucket.
RotateBucket ==
  /\ window # [i \in 1..RollingCountBuckets |-> EmptyBucket]
  /\ window' = [i \in 1..RollingCountBuckets |->
                  IF i = 1 THEN EmptyBucket ELSE window[i - 1]]
  /\ settled' = Nothing
  /\ UNCHANGED <<retries, onFailedAttempt, brState, pendingClose, calls>>

\* The next step belongs to the other instance: the variables now describe
\* that one.
Switch ==
  /\ rfActive' = CHOOSE i \in Instances : i # rfActive
  /\ rfOther' = Instance(retries, brState, pendingClose, window, calls)
  /\ retries' = rfOther.retries
  /\ UNCHANGED onFailedAttempt
  /\ brState' = rfOther.brState
  /\ pendingClose' = rfOther.pendingClose
  /\ window' = rfOther.window
  /\ calls' = rfOther.calls
  /\ settled' = Nothing

\* execute() on the instance the variables describe, in a run that bounds
\* the calls made to the two instances together.
ExecuteOne(args) ==
  /\ Stats(window).fires + Stats(rfOther.window).fires < MaxFires
  /\ BagSize(calls) + BagSize(rfOther.calls) < MaxCallsOfTwo
  /\ Execute(args)

\* What the wrapped functions of the two instances reject with: an error
\* that is retried and one that is not.
TwoThrows == { Thrown("Error", NoStatus, NoCode, "Network timeout"),
               Thrown("Error", 400, NoCode, "Invalid input") }

\* -------------------------------------------------------------- MessageQueue
\* Payloads callers enqueue: a plain JSON value, NaN (which JSON writes
\* as null) and a cyclic object (which JSON.stringify refuses).
Payloads == {"a", "NaN", "cyclic"}

\* JSON.stringify throws on this value.
StringifyThrows(v) == v = "cyclic"
\* JSON.parse(JSON.stringify(v)) for a value JSON.stringify accepts.
JsonImage(v) == IF v = "NaN" THEN "null" ELSE v

\* The message enqueue() builds. (Its timestamp plays no part here.)
Message(id, data) == [id |-> id, data |-> data, attempts |-> 0]
\* A string stored in the list: the JSON text of a message, or a string that
\* is no JSON.
JsonText(m) == [json |-> TRUE, id |-> m.id, data |-> JsonImage(m.data), attempts |-> m.attempts]
NotJson == [json |-> FALSE, id |-> 0, data |-> "", attempts |-> 0]
\* JSON.parse of a stored string that is JSON.
JsonParse(t) == [id |-> t.id, data |-> t.data, attempts |-> t.attempts]

\* A variant that pushes at the end dequeue pops from.
Lpush_AtTail(l, t) == l \o <<t>>

\* LPUSH: add at the head.
Lpush(l, t) == <<t>> \o l

\* A variant that reads the last element without removing it.
Brpop_Peek(l) == [item |-> l[Len(l)], rest |-> l]

\* BRPOP on a non-empty list: take the tail.
Brpop(l) == [item |-> l[Len(l)], rest |-> SubSeq(l, 1, Len(l) - 1)]

MqRet(op, outcome, val) == [op |-> op, outcome |-> outcome, val |-> val]
NoMessage == Message(0, "")
MqNothing == MqRet("none", "none", NoMessage)

\* A variant whose parse failure is not caught.
DequeueResult_ParseErrorRejects(t) ==
  IF t.json THEN MqRet("dequeue", "returned", JsonParse(t))
  ELSE MqRet("dequeue", "rejected", NoMessage)

\* dequeue() once BRPOP answered with item t.
DequeueResult(t) ==
  IF t.json THEN MqRet("dequeue", "returned", JsonParse(t))
  ELSE MqRet("dequeue", "returnedNull", NoMessage)

QuietMQ ==
  /\ mqClients = 1
  /\ list = <<>>
  /\ nextId = 1
  /\ enqPending = {}
  /\ deqWaiting = 0
  /\ deqReplies = EmptyBag
  /\ pushedLog = <<>>
  /\ returned = <<>>
  /\ mqRet = MqNothing

InitMQ ==
  /\ mqClients \in 1..MaxClients
  /\ list = <<>>
  /\ nextId = 1
  /\ enqPending = {}
  /\ deqWaiting = 0
  /\ deqReplies = EmptyBag
  /\ pushedLog = <<>>
  /\ returned = <<>>
  /\ mqRet = MqNothing

\* enqueue(data) up to its await of LPUSH.
Enqueue(data) ==
  /\ nextId <= MaxMessages
  /\ Cardinality(enqPending) < mqClients
  /\ nextId' = nextId + 1
  /\ IF StringifyThrows(data)
       THEN /\ mqRet' = MqRet("enqueue", "rejected", NoMessage)
            /\ UNCHANGED enqPending
       ELSE /\ enqPending' = enqPending \cup {Message(nextId, data)}
            /\ mqRet' = MqNothing
  /\ UNCHANGED <<mqClients, list, deqWaiting, deqReplies, pushedLog, returned>>

\* LPUSH is applied and enqueue() returns the id.
LpushDone(m) ==
  /\ m \in enqPending
  /\ list' = Lpush(list, JsonText(m))
  /\ enqPending' = enqPending \ {m}
  /\ pushedLog' = Append(pushedLog, m)
  /\ mqRet' = MqRet("enqueue", "returned", m)
  /\ UNCHANGED <<mqClients, nextId, deqWaiting, deqReplies, returned>>

\* LPUSH fails: enqueue() has no catch and rejects.
LpushFails(m) ==
  /\ m \in enqPending
  /\ enqPending' = enqPending \ {m}
  /\ mqRet' = MqRet("enqueue", "rejected", NoMessage)
  /\ UNCHANGED <<mqClients, list, nextId, deqWaiting, deqReplies, pushedLog, returned>>

\* Another writer pushes a string that is no JSON (one such string is in the
\* list at a time).
ForeignPush ==
  /\ \A i \in 1..Len(list) : list[i] # NotJson
  /\ NotJson \notin DOMAIN deqReplies
  /\ list' = Lpush(list, NotJson)
  /\ mqRet' = MqNothing
  /\ UNCHANGED <<mqClients, nextId, enqPending, deqWaiting, deqReplies, pushedLog, returned>>

\* dequeue() up to its await of BRPOP.
Dequeue ==
  /\ deqWaiting + BagSize(deqReplies) < mqClients
  /\ Len(returned) < MaxMessages
  /\ deqWaiting' = deqWaiting + 1
  /\ mqRet' = MqNothing
  /\ UNCHANGED <<mqClients, list, nextId, enqPending, deqReplies, pushedLog, returned>>

\* BRPOP pops the tail for one blocked dequeue().
BrpopPops ==
  /\ deqWaiting > 0
  /\ list # <<>>
  /\ list' = Brpop(list).rest
  /\ deqReplies' = BagAdd(deqReplies, Brpop(list).item)
  /\ deqWaiting' = deqWaiting - 1
  /\ mqRet' = MqNothing
  /\ UNCHANGED <<mqClients, nextId, enqPending, pushedLog, returned>>

\* BRPOP's wait of 1 s ends with the list still empty: dequeue() returns null.
BrpopTimesOut ==
  /\ deqWaiting > 0
  /\ list = <<>>
  /\ deqWaiting' = deqWaiting - 1
  /\ mqRet' = MqRet("dequeue", "returnedNull", NoMessage)
  /\ UNCHANGED <<mqClients, list, nextId, enqPending, deqReplies, pushedLog, returned>>

\* BRPOP fails: dequeue() awaits it outside its try and rejects.
BrpopFails ==
  /\ deqWaiting > 0
  /\ deqWaiting' = deqWaiting - 1
  /\ mqRet' = MqRet("dequeue", "rejected", NoMessage)
  /\ UNCHANGED <<mqClients, list, nextId, enqPending, deqReplies, pushedLog, returned>>

\* dequeue() parses the popped item and returns.
DequeueReturns(t) ==
  /\ t \in DOMAIN deqReplies
  /\ deqReplies' = BagRemove(deqReplies, t)
  /\ mqRet' = DequeueResult(t)
  /\ returned' = IF mqRet'.outcome = "returned" THEN Append(returned, mqRet'.val) ELSE returned
  /\ UNCHANGED <<mqClients, list, nextId, enqPending, deqWaiting, pushedLog>>

\* ---------------------------------------------------------------- AgentCache
Keys == {"k1", "k2"}
\* Values callers cache: a plain JSON value, NaN (null in JSON) and undefined.
Undefined == "undefined"
Null == "null"
CacheValues == {"v1", "NaN", Undefined}

\* Strings of the remote tier: no key, the empty string, a string that is no
\* JSON, or the JSON text of a value (written as the value's JSON image).
Nil == "(nil)"
EmptyText == ""
BadText == "{not json"
\* JSON.stringify(value) as setex stores it; undefined has no JSON text and
\* is stored as the empty string.
CacheText(v) == IF v = Undefined THEN EmptyText ELSE JsonImage(v)

\* effectiveTtl of set(key, value, ttlMs): ttlMs || config.ttlMs || 300000,
\* in ticks of the clock; 0 stands for an omitted ttlMs.
EffectiveTtl(ttlMs) == IF ttlMs = 0 THEN CacheTtl ELSE ttlMs

\* An entry of the local tier as set stores it: `age` counts the ticks since
\* its TTL clock was last started, `sinceSet` the ticks since it was set.
Entry(k, v, ttl) == [key |-> k, val |-> v, ttl |-> ttl, age |-> 0, sinceSet |-> 0]
\* An entry is stale once more than its ttl has passed on its TTL clock.
Stale(e) == e.age > e.ttl
RECURSIVE IndexOf(_, _, _)
\* Position of key k in the local tier from position i on, 0 when absent.
IndexOf(l, k, i) ==
  IF i > Len(l) THEN 0 ELSE IF l[i].key = k THEN i ELSE IndexOf(l, k, i + 1)
Without(l, i) == SubSeq(l, 1, i - 1) \o SubSeq(l, i + 1, Len(l))

\* memoryCache.get(key): undefined on a miss; allowStale hands out the value
\* of a stale entry as well.
LocalGet(l, k) == IF IndexOf(l, k, 1) = 0 THEN Undefined ELSE l[IndexOf(l, k, 1)].val
\* A variant in which a read does not count as a use.
LocalTouch_NoReorder(l, k) ==
  IF IndexOf(l, k, 1) = 0 THEN l
  ELSE IF Stale(l[IndexOf(l, k, 1)]) THEN Without(l, IndexOf(l, k, 1))
  ELSE [l EXCEPT ![IndexOf(l, k, 1)].age = 0]

\* ... a hit on a stale entry deletes it; any other hit makes the entry the
\* most recently used and restarts its TTL clock (updateAgeOnGet).
LocalTouch(l, k) ==
  IF IndexOf(l, k, 1) = 0 THEN l
  ELSE IF Stale(l[IndexOf(l, k, 1)]) THEN Without(l, IndexOf(l, k, 1))
  ELSE Append(Without(l, IndexOf(l, k, 1)), [l[IndexOf(l, k, 1)] EXCEPT !.age = 0])
\* memoryCache.delete(key)
LocalDelete(l, k) == IF IndexOf(l, k, 1) = 0 THEN l ELSE Without(l, IndexOf(l, k, 1))
\* A variant that drops a new key when the cache is full.
LocalSet_NoEviction(l, k, v, max, ttl) ==
  IF v = Undefined THEN LocalDelete(l, k)
  ELSE IF IndexOf(l, k, 1) # 0 THEN Append(Without(l, IndexOf(l, k, 1)), Entry(k, v, ttl))
  ELSE IF Len(l) >= max THEN l
  ELSE Append(l, Entry(k, v, ttl))

\* memoryCache.set(key, value, {ttl}): undefined deletes; a new key in a full
\* cache evicts the least recently used entry.
LocalSet(l, k, v, max, ttl) ==
  IF v = Undefined THEN LocalDelete(l, k)
  ELSE IF IndexOf(l, k, 1) # 0 THEN Append(Without(l, IndexOf(l, k, 1)), Entry(k, v, ttl))
  ELSE IF Len(l) >= max THEN Append(Tail(l), Entry(k, v, ttl))
  ELSE Append(l, Entry(k, v, ttl))

CacheOp(op, k, v) == [op |-> op, key |-> k, val |-> v]
CacheRet(op, k, arg, outcome, res, via) ==
  [op |-> op, key |-> k, arg |-> arg, outcome |-> outcome, res |-> res, via |-> via]
CacheNothing == CacheRet("none", "", Undefined, "none", Undefined, "none")

\* A variant that lets the parse error of a remote string reach the caller.
GetFromReply_ParseErrorRejects(t) ==
  IF t = Nil \/ t = EmptyText
    THEN [outcome |-> "returned", res |-> Null, store |-> FALSE, via |-> "miss"]
  ELSE IF t = BadText
    THEN [outcome |-> "rejected", res |-> Undefined, store |-> FALSE, via |-> "parseError"]
  ELSE [outcome |-> "returned", res |-> t, store |-> TRUE, via |-> "redis"]

\* get() after redis.get answered with string t: what it returns, whether it
\* stores it locally, and the path taken.
GetFromReply_NoStore(t) ==
  IF t = Nil \/ t = EmptyText
    THEN [outcome |-> "returned", res |-> Null, store |-> FALSE, via |-> "miss"]
  ELSE IF t = BadText
    THEN [outcome |-> "returned", res |-> Null, store |-> FALSE, via |-> "parseError"]
  ELSE [outcome |-> "returned", res |-> t, store |-> FALSE, via |-> "redis"]

\* get() after redis.get answered with string t (null when there is no key).
GetFromReply(t) ==
  IF t = Nil \/ t = EmptyText
    THEN [outcome |-> "returned", res |-> Null, store |-> FALSE, via |-> "miss"]
  ELSE IF t = BadText
    THEN [outcome |-> "returned", res |-> Null, store |-> FALSE, via |-> "parseError"]
  ELSE [outcome |-> "returned", res |-> t, store |-> TRUE, via |-> "redis"]
\* get() after redis.get failed.
GetFromFailure == [outcome |-> "returned", res |-> Null, store |-> FALSE, via |-> "readError"]
\* set() after redis.setex failed.
SetFromFailure == [outcome |-> "returned", via |-> "writeError"]

QuietCache ==
  /\ hasRedis = FALSE
  /\ cacheMax = 1
  /\ cacheOpsMax = 1
  /\ memoryCache = <<>>
  /\ redisKeys = [k \in Keys |-> Nil]
  /\ cacheOps = EmptyBag
  /\ cacheRet = CacheNothing

InitCache ==
  /\ hasRedis \in BOOLEAN
  /\ cacheMax \in {1, MaxCacheSize}
  /\ cacheOpsMax \in {1, MaxCacheOps}
  /\ memoryCache = <<>>
  /\ redisKeys = [k \in Keys |-> Nil]
  /\ cacheOps = EmptyBag
  /\ cacheRet = CacheNothing

\* get(key) up to its return or its await of redis.get.
CacheGet(k) ==
  /\ BagSize(cacheOps) < cacheOpsMax
  /\ IF LocalGet(memoryCache, k) # Undefined
       THEN /\ memoryCache' = LocalTouch(memoryCache, k)
            /\ cacheRet' = CacheRet("get", k, Undefined, "returned",
                                    LocalGet(memoryCache, k), "memory")
            /\ UNCHANGED cacheOps
       ELSE IF hasRedis
         THEN /\ cacheOps' = BagAdd(cacheOps, CacheOp("get", k, Undefined))
              /\ cacheRet' = CacheNothing
              /\ UNCHANGED memoryCache
         ELSE /\ cacheRet' = CacheRet("get", k, Undefined, "returned", Null, "noRedis")
              /\ UNCHANGED <<memoryCache, cacheOps>>
  /\ UNCHANGED <<hasRedis, cacheMax, cacheOpsMax, redisKeys>>

\* redis.get answers and get() returns.
RedisGetDone(o) ==
  /\ o.op = "get"
  /\ LET r == GetFromReply(redisKeys[o.key]) IN
       /\ memoryCache' = IF r.store THEN LocalSet(memoryCache, o.key, r.res, cacheMax, CacheTtl)
                         ELSE memoryCache
       /\ cacheRet' = CacheRet("get", o.key, Undefined, r.outcome, r.res, r.via)
  /\ cacheOps' = BagRemove(cacheOps, o)
  /\ UNCHANGED <<hasRedis, cacheMax, cacheOpsMax, redisKeys>>

\* redis.get fails and get() returns.
RedisGetFails(o) ==
  /\ o.op = "get"
  /\ cacheRet' = CacheRet("get", o.key, Undefined, GetFromFailure.outcome,
                          GetFromFailure.res, GetFromFailure.via)
  /\ cacheOps' = BagRemove(cacheOps, o)
  /\ UNCHANGED <<hasRedis, cacheMax, cacheOpsMax, memoryCache, redisKeys>>

\* set(key, value) up to its return or its await of redis.setex.
CacheSet(k, v, ttlMs) ==
  /\ BagSize(cacheOps) < cacheOpsMax
  /\ memoryCache' = LocalSet(memoryCache, k, v, cacheMax, EffectiveTtl(ttlMs))
  /\ IF hasRedis
       THEN /\ cacheOps' = BagAdd(cacheOps, CacheOp("set", k, v))
            /\ cacheRet' = CacheNothing
       ELSE /\ cacheRet' = CacheRet("set", k, v, "returned", Undefined, "noRedis")
            /\ UNCHANGED cacheOps
  /\ UNCHANGED <<hasRedis, cacheMax, cacheOpsMax, redisKeys>>

\* redis.setex is applied and set() returns.
RedisSetexDone(o) ==
  /\ o.op = "set"
  /\ redisKeys' = [redisKeys EXCEPT ![o.key] = CacheText(o.val)]
  /\ cacheRet' = CacheRet("set", o.key, o.val, "returned", Undefined, "redis")
  /\ cacheOps' = BagRemove(cacheOps, o)
  /\ UNCHANGED <<hasRedis, cacheMax, cacheOpsMax, memoryCache>>

\* redis.setex fails and set() returns.
RedisSetexFails(o) ==
  /\ o.op = "set"
  /\ cacheRet' = CacheRet("set", o.key, o.val, SetFromFailure.outcome, Undefined,
                          SetFromFailure.via)
  /\ cacheOps' = BagRemove(cacheOps, o)
  /\ UNCHANGED <<hasRedis, cacheMax, cacheOpsMax, memoryCache, redisKeys>>

\* delete(key) up to its return or its await of redis.del.
CacheDelete(k) ==
  /\ BagSize(cacheOps) < cacheOpsMax
  /\ memoryCache' = LocalDelete(memoryCache, k)
  /\ IF hasRedis
       THEN /\ cacheOps' = BagAdd(cacheOps, CacheOp("delete", k, Undefined))
            /\ cacheRet' = CacheNothing
       ELSE /\ cacheRet' = CacheRet("delete", k, Undefined, "returned", Undefined, "noRedis")
            /\ UNCHANGED cacheOps
  /\ UNCHANGED <<hasRedis, cacheMax, cacheOpsMax, redisKeys>>

\* redis.del is applied and delete() returns.
RedisDelDone(o) ==
  /\ o.op = "delete"
  /\ redisKeys' = [redisKeys EXCEPT ![o.key] = Nil]
  /\ cacheRet' = CacheRet("delete", o.key, Undefined, "returned", Undefined, "redis")
  /\ cacheOps' = BagRemove(cacheOps, o)
  /\ UNCHANGED <<hasRedis, cacheMax, cacheOpsMax, memoryCache>>

\* redis.del fails and delete() returns.
RedisDelFails(o) ==
  /\ o.op = "delete"
  /\ cacheRet' = CacheRet("delete", o.key, Undefined, "returned", Undefined, "deleteError")
  /\ cacheOps' = BagRemove(cacheOps, o)
  /\ UNCHANGED <<hasRedis, cacheMax, cacheOpsMax, memoryCache, redisKeys>>

\* clear() up to its return or its await of redis.flushdb.
CacheClear ==
  /\ BagSize(cacheOps) < cacheOpsMax
  /\ memoryCache' = <<>>
  /\ IF hasRedis
       THEN /\ cacheOps' = BagAdd(cacheOps, CacheOp("clear", "", Undefined))
            /\ cacheRet' = CacheNothing
       ELSE /\ cacheRet' = CacheRet("clear", "", Undefined, "returned", Undefined, "noRedis")
            /\ UNCHANGED cacheOps
  /\ UNCHANGED <<hasRedis, cacheMax, cacheOpsMax, redisKeys>>

\* redis.flushdb is applied and clear() returns.
RedisFlushDone(o) ==
  /\ o.op = "clear"
  /\ redisKeys' = [k \in DOMAIN redisKeys |-> Nil]
  /\ cacheRet' = CacheRet("clear", "", Undefined, "returned", Undefined, "redis")
  /\ cacheOps' = BagRemove(cacheOps, o)
  /\ UNCHANGED <<hasRedis, cacheMax, cacheOpsMax, memoryCache>>

\* redis.flushdb fails and clear() returns.
RedisFlushFails(o) ==
  /\ o.op = "clear"
  /\ cacheRet' = CacheRet("clear", "", Undefined, "returned", Undefined, "clearError")
  /\ cacheOps' = BagRemove(cacheOps, o)
  /\ UNCHANGED <<hasRedis, cacheMax, cacheOpsMax, memoryCache, redisKeys>>

\* FLUSHDB on a connection a MessageQueue uses too: the command empties the
\* selected database, the list of the queue with the keys of the cache.
Flushdb(o) ==
  /\ RedisFlushDone(o)
  /\ list' = <<>>
  /\ UNCHANGED <<mqClients, nextId, enqPending, deqWaiting, deqReplies,
                 pushedLog, returned, mqRet>>

\* An AgentCache and a MessageQueue constructed on one connection.
InitShared ==
  /\ QuietMQ
  /\ hasRedis = TRUE
  /\ cacheMax \in 1..MaxCacheSize
  /\ cacheOpsMax = 1
  /\ memoryCache = <<>>
  /\ redisKeys = [k \in Keys |-> Nil]
  /\ cacheOps = EmptyBag
  /\ cacheRet = CacheNothing

\* The clock advances by one tick.
CacheTick ==
  /\ \E i \in 1..Len(memoryCache) : ~Stale(memoryCache[i])
  /\ memoryCache' = [i \in 1..Len(memoryCache) |->
                       [memoryCache[i] EXCEPT
                          !.age = IF @ <= memoryCache[i].ttl THEN @ + 1 ELSE @,
                          !.sinceSet = IF @ <= memoryCache[i].ttl THEN @ + 1 ELSE @]]
  /\ cacheRet' = CacheNothing
  /\ UNCHANGED <<hasRedis, cacheMax, cacheOpsMax, redisKeys, cacheOps>>

\* A cache over three keys whose calls do not overlap.
LruKeys == Keys \cup {"k3"}
InitCacheLru ==
  /\ hasRedis \in BOOLEAN
  /\ cacheMax \in 1..MaxCacheSize
  /\ cacheOpsMax = 1
  /\ memoryCache = <<>>
  /\ redisKeys = [k \in LruKeys |-> Nil]
  /\ cacheOps = EmptyBag
  /\ cacheRet = CacheNothing

\* A cache without a remote tier, whose clock advances.
InitCacheTtl ==
  /\ hasRedis = FALSE
  /\ cacheMax \in {1, MaxCacheSize}
  /\ cacheOpsMax = 1
  /\ memoryCache = <<>>
  /\ redisKeys = [k \in Keys |-> Nil]
  /\ cacheOps = EmptyBag
  /\ cacheRet = CacheNothing

\* The remote tier changes under the cache: a key expires there, or another
\* writer stores a string that is no JSON.
RedisChanges(k, t) ==
  /\ hasRedis
  /\ redisKeys[k] # t
  /\ redisKeys' = [redisKeys EXCEPT ![k] = t]
  /\ cacheRet' = CacheNothing
  /\ UNCHANGED <<hasRedis, cacheMax, cacheOpsMax, memoryCache, cacheOps>>

\* ----------------------------------------------------------------- AgentPool
SessionIds == {"", "s1", "s2"}

Warm(sid, agent, age) == [sid |-> sid, agent |-> agent, age |-> age]
RECURSIVE PoolIndex(_, _, _)
\* Position of sid's entry from position i on, 0 when absent.
PoolIndex(l, sid, i) ==
  IF i > Len(l) THEN 0 ELSE IF l[i].sid = sid THEN i ELSE PoolIndex(l, sid, i + 1)
RemoveAt(l, i) == SubSeq(l, 1, i - 1) \o SubSeq(l, i + 1, Len(l))

\* A variant that still takes an entry of exactly ttlMs for fresh.
Fresh_Inclusive(e) == e.age <= PoolTtl

\* (Date.now() - cached.timestamp) < ttlMs
Fresh(e) == e.age < PoolTtl
\* cached && fresh: the entry getAgent hands out without creating.
HasWarm(l, sid) == PoolIndex(l, sid, 1) # 0 /\ Fresh(l[PoolIndex(l, sid, 1)])
\* if (oldestKey): a string is truthy unless it is empty.
Truthy(key) == key # ""
\* The capacity check before an insertion.
EvictOldest(l, max) ==
  IF Len(l) >= max /\ Len(l) > 0 /\ Truthy(l[1].sid) THEN Tail(l) ELSE l
\* Map.set: an existing key keeps its position.
MapSet(l, e) ==
  IF PoolIndex(l, e.sid, 1) # 0 THEN [l EXCEPT ![PoolIndex(l, e.sid, 1)] = e]
  ELSE Append(l, e)
RECURSIVE Sweep_StopsAtFresh(_)
\* A variant that stops at the first fresh entry.
Sweep_StopsAtFresh(l) ==
  IF l = <<>> THEN <<>>
  ELSE IF Fresh(Head(l)) THEN l ELSE Sweep_StopsAtFresh(Tail(l))

RECURSIVE Sweep(_)
\* cleanup(): every entry that is not fresh goes.
Sweep(l) ==
  IF l = <<>> THEN <<>>
  ELSE IF Fresh(Head(l)) THEN <<Head(l)>> \o Sweep(Tail(l)) ELSE Sweep(Tail(l))
\* size()
PoolSize(l) == Len(l)

PoolRet(op, sid, outcome, agent) == [op |-> op, sid |-> sid, outcome |-> outcome, agent |-> agent]
PoolNothing == PoolRet("none", "", "none", 0)

QuietPool ==
  /\ poolMax = 1
  /\ warmAgents = <<>>
  /\ agentCreators = {}
  /\ creating = EmptyBag
  /\ nextAgent = 1
  /\ poolRet = PoolNothing

InitPool ==
  /\ poolMax \in 1..MaxPoolSize
  /\ warmAgents = <<>>
  /\ agentCreators = {}
  /\ creating = EmptyBag
  /\ nextAgent = 1
  /\ poolRet = PoolNothing

RegisterAgentCreator(sid) ==
  /\ agentCreators' = agentCreators \cup {sid}
  /\ poolRet' = PoolNothing
  /\ UNCHANGED <<poolMax, warmAgents, creating, nextAgent>>

\* A variant that calls the creator without looking whether there is one.
GetAgent_NoCreatorCheck(sid) ==
  /\ IF HasWarm(warmAgents, sid)
       THEN /\ poolRet' = PoolRet("getAgent", sid, "warm",
                                  warmAgents[PoolIndex(warmAgents, sid, 1)].agent)
            /\ UNCHANGED creating
       ELSE /\ nextAgent + BagSize(creating) <= MaxAgents
            /\ creating' = BagAdd(creating, sid)
            /\ poolRet' = PoolNothing
  /\ UNCHANGED <<poolMax, warmAgents, agentCreators, nextAgent>>

\* getAgent(sessionId) up to its return, its throw or its await of creator().
GetAgent(sid) ==
  /\ IF HasWarm(warmAgents, sid)
       THEN /\ poolRet' = PoolRet("getAgent", sid, "warm",
                                  warmAgents[PoolIndex(warmAgents, sid, 1)].agent)
            /\ UNCHANGED creating
       ELSE IF sid \notin agentCreators
         THEN /\ poolRet' = PoolRet("getAgent", sid, "noCreator", 0)
              /\ UNCHANGED creating
         ELSE /\ nextAgent + BagSize(creating) <= MaxAgents
              /\ creating' = BagAdd(creating, sid)
              /\ poolRet' = PoolNothing
  /\ UNCHANGED <<poolMax, warmAgents, agentCreators, nextAgent>>

\* creator() resolves: capacity check, insertion, return.
CreatorResolves(sid) ==
  /\ warmAgents' = MapSet(EvictOldest(warmAgents, poolMax), Warm(sid, nextAgent, 0))
  /\ nextAgent' = nextAgent + 1
  /\ creating' = BagRemove(creating, sid)
  /\ poolRet' = PoolRet("getAgent", sid, "created", nextAgent)
  /\ UNCHANGED <<poolMax, agentCreators>>

\* creator() rejects and getAgent rejects with the same error.
CreatorRejects(sid) ==
  /\ creating' = BagRemove(creating, sid)
  /\ poolRet' = PoolRet("getAgent", sid, "creatorFailed", 0)
  /\ UNCHANGED <<poolMax, warmAgents, agentCreators, nextAgent>>

Cleanup ==
  /\ warmAgents' = Sweep(warmAgents)
  /\ poolRet' = PoolRet("cleanup", "", "returned", 0)
  /\ UNCHANGED <<poolMax, agentCreators, creating, nextAgent>>

\* The clock advances by one tick.
PoolTick ==
  /\ \E i \in 1..Len(warmAgents) : Fresh(warmAgents[i])
  /\ warmAgents' = [i \in 1..Len(warmAgents) |->
                      [warmAgents[i] EXCEPT !.age = IF @ < PoolTtl THEN @ + 1 ELSE @]]
  /\ poolRet' = PoolNothing
  /\ UNCHANGED <<poolMax, agentCreators, creating, nextAgent>>

\* ------------------------------------------------------------ ConnectionPool
\* The two handles: pgPool ("pg") and redis ("redis").
Kinds == {"pg", "redis"}
\* The fields' initial value null.
NoInstance == 0

CpRet(op, kind, outcome, inst) == [op |-> op, kind |-> kind, outcome |-> outcome, inst |-> inst]
CpNothing == CpRet("none", "", "none", NoInstance)

\* An init call awaiting the probe of the instance it constructed.
Probe(kind, inst) == [kind |-> kind, inst |-> inst]

\* A variant whose guard never sees the handle.
Initialized_Never(h, kind) == FALSE

\* if (this.pgPool) / if (this.redis): the guard at the head of an init.
Initialized(h, kind) == h[kind] # NoInstance

\* getPostgres() / getRedis(): throw if the field is null, else return it.
GetHandle(h, kind) ==
  IF h[kind] = NoInstance THEN CpRet("get", kind, "threwNotInitialized", NoInstance)
  ELSE CpRet("get", kind, "returned", h[kind])

QuietCP ==
  /\ cpHandle = [k \in Kinds |-> NoInstance]
  /\ cpNext = 1
  /\ cpProbing = {}
  /\ cpClosing = {}
  /\ cpOk = [k \in Kinds |-> FALSE]
  /\ cpRet = CpNothing

InitCP == QuietCP

\* initPostgres / initRedis up to its return or the await of its probe.
InitHandle(kind) ==
  /\ IF Initialized(cpHandle, kind)
       THEN /\ cpRet' = CpRet("init", kind, "returnedExisting", cpHandle[kind])
            /\ UNCHANGED <<cpHandle, cpNext, cpProbing>>
       ELSE /\ cpNext <= MaxInstances
            /\ cpHandle' = [cpHandle EXCEPT ![kind] = cpNext]
            /\ cpNext' = cpNext + 1
            /\ cpProbing' = cpProbing \cup {Probe(kind, cpNext)}
            /\ cpRet' = CpNothing
  /\ UNCHANGED <<cpClosing, cpOk>>

\* The probe (connect and SELECT 1, or connect and ping) succeeds and the
\* init returns the field as it is now.
ProbeSucceeds(p) ==
  /\ p \in cpProbing
  /\ cpProbing' = cpProbing \ {p}
  /\ cpOk' = [cpOk EXCEPT ![p.kind] = @ \/ cpHandle[p.kind] = p.inst]
  /\ cpRet' = CpRet("init", p.kind, "returned", cpHandle[p.kind])
  /\ UNCHANGED <<cpHandle, cpNext, cpClosing>>

\* The probe fails: the init logs and rethrows; the field stays set.
ProbeFails(p) ==
  /\ p \in cpProbing
  /\ cpProbing' = cpProbing \ {p}
  /\ cpRet' = CpRet("init", p.kind, "rejected", NoInstance)
  /\ UNCHANGED <<cpHandle, cpNext, cpClosing, cpOk>>

\* getPostgres() / getRedis()
Get(kind) ==
  /\ cpRet' = GetHandle(cpHandle, kind)
  /\ UNCHANGED <<cpHandle, cpNext, cpProbing, cpClosing, cpOk>>

\* What close() does next once the kinds before `kind` are done: await the
\* end of the first handle that is set, or return.
CloseFrom(h, kinds) ==
  IF "pg" \in kinds /\ h["pg"] # NoInstance THEN "pg"
  ELSE IF h["redis"] # NoInstance THEN "redis"
  ELSE "done"

\* close() up to its return or its first await (one close() at a time).
Close ==
  /\ cpClosing = {}
  /\ IF CloseFrom(cpHandle, Kinds) = "done"
       THEN /\ cpRet' = CpRet("close", "", "returned", NoInstance)
            /\ UNCHANGED cpClosing
       ELSE /\ cpClosing' = {CloseFrom(cpHandle, Kinds)}
            /\ cpRet' = CpNothing
  /\ UNCHANGED <<cpHandle, cpNext, cpProbing, cpOk>>

\* pgPool.end() / redis.quit() resolves: the field becomes null and close()
\* goes on to the next handle or returns.
EndResolves(kind) ==
  /\ kind \in cpClosing
  /\ cpHandle' = [cpHandle EXCEPT ![kind] = NoInstance]
  /\ cpOk' = [cpOk EXCEPT ![kind] = FALSE]
  /\ IF CloseFrom(cpHandle', Kinds \ {"pg"}) = "done" \/ kind = "redis"
       THEN /\ cpClosing' = {}
            /\ cpRet' = CpRet("close", "", "returned", NoInstance)
       ELSE /\ cpClosing' = {"redis"}
            /\ cpRet' = CpNothing
  /\ UNCHANGED <<cpNext, cpProbing>>

\* pgPool.end() / redis.quit() rejects and close() rejects with it.
EndRejects(kind) ==
  /\ kind \in cpClosing
  /\ cpClosing' = {}
  /\ cpRet' = CpRet("close", "", "rejected", NoInstance)
  /\ UNCHANGED <<cpHandle, cpNext, cpProbing, cpOk>>

\* --------------------------------------------------------- WhatsApp gateway
\* apps/whatsapp-gateway: the POST /twilio/whatsapp/inbound handler, the
\* sessions table it reads and writes, and the conversational runner.
Sessions == {"u1", "u2"}
\* req.body.From when the field is missing or empty.
NoFrom == ""
\* provider and model_id of a session without a row (null).
NoProvider == ""
NoModel == ""
\* process.env.MODEL_PROVIDER || 'openai'
EnvProvider == "openai"

\* String.prototype.toLowerCase on the words that occur.
Lower(w) ==
  CASE w = "Anthropic" -> "anthropic"
    [] w = "/Reset" -> "/reset"
    [] OTHER -> w

\* req.body.Body as express.urlencoded({ extended: false }) parses it: a
\* string, given here by its words (trim and split on whitespace), or an
\* array when the field is repeated in the form.
Body(words) == [repeated |-> FALSE, words |-> words]
RepeatedBody == [repeated |-> TRUE, words |-> <<"a">>]
Bodies ==
  { Body(<<>>), Body(<<"hello">>), Body(<<"/Reset">>), Body(<<"/provider">>),
    Body(<<"/provider", "Anthropic">>), Body(<<"/provider", "openai", "m1">>),
    RepeatedBody }

\* A row of the sessions table.
Pref(provider, model_id) == [provider |-> provider, model_id |-> model_id]
NoPref == Pref(NoProvider, NoModel)

\* A ConversationalAgent: the config it was constructed with and whether
\* its initialize() has completed.
Agent(provider, modelId, initialized) ==
  [provider |-> provider, modelId |-> modelId, initialized |-> initialized]
NoAgent == Agent("none", NoModel, FALSE)

\* A handler past its response, awaiting `stage`.
Handler(from, stage) == [from |-> from, stage |-> stage]

\* What a step of a handler did: the 204 responses it sent and the agent
\* whose processMessage it invoked (NoAgent if it invoked none).
GwRet(op, from, path, responses, agent) ==
  [op |-> op, from |-> from, path |-> path, responses |-> responses, agent |-> agent]
GwNothing == GwRet("none", NoFrom, "none", 0, NoAgent)

\* readRunnerConfig(forSession): provider and modelId of the config.
ReadRunnerConfig(table, s) ==
  [provider |-> Lower(IF table[s].provider # NoProvider THEN table[s].provider
                      ELSE EnvProvider),
   modelId |-> table[s].model_id]

\* The branch the handler takes. An array has no trim method, so a repeated
\* Body throws before any response is sent.
Path(from, body) ==
  IF from = NoFrom \/ (~body.repeated /\ body.words = <<>>) THEN "missing"
  ELSE IF body.repeated THEN "threw"
  ELSE IF Lower(body.words[1]) = "/provider" /\ Len(body.words) >= 2 THEN "provider"
  ELSE IF Len(body.words) = 1 /\ Lower(body.words[1]) = "/reset" THEN "reset"
  ELSE "message"

QuietGW ==
  /\ sessions = [s \in Sessions |-> NoPref]
  /\ agentInstance = NoAgent
  /\ inbound = EmptyBag
  /\ handled = 0
  /\ gwRet = GwNothing

InitGW == QuietGW

\* runConversation(config, message, sessionId) up to its first await: the
\* agent is constructed from this call's config only if there is none yet.
\* initialize() awaits nothing, so its body has run when the call reaches
\* `await agentInstance.initialize()`: either it set the agent up, or a
\* constructor it calls threw and the promise awaited is a rejected one.
RunConversation(from) ==
  IF agentInstance = NoAgent
    THEN \E ok \in BOOLEAN :
         LET config == ReadRunnerConfig(sessions, from) IN
         /\ agentInstance' = Agent(config.provider, config.modelId, ok)
         /\ inbound' = BagAdd(inbound, Handler(from, "initializing"))
         /\ gwRet' = GwRet("inbound", from, "message", 1, NoAgent)
    ELSE /\ inbound' = BagAdd(inbound, Handler(from, "processing"))
         /\ gwRet' = GwRet("inbound", from, "message", 1, agentInstance)
         /\ UNCHANGED agentInstance

\* The handler from the arrival of a request to its return or first await.
Inbound(from, body) ==
  /\ handled < MaxRequests
  /\ handled' = handled + 1
  /\ LET path == Path(from, body) IN
     CASE path = "missing" ->
            /\ gwRet' = GwRet("inbound", from, path, 1, NoAgent)
            /\ UNCHANGED <<sessions, agentInstance, inbound>>
       [] path = "threw" ->
            /\ gwRet' = GwRet("inbound", from, path, 0, NoAgent)
            /\ UNCHANGED <<sessions, agentInstance, inbound>>
       [] path = "provider" ->
            /\ sessions' = [sessions EXCEPT ![from] =
                 Pref(Lower(body.words[2]),
                      IF Len(body.words) >= 3 THEN body.words[3] ELSE NoModel)]
            /\ inbound' = BagAdd(inbound, Handler(from, "notify"))
            /\ gwRet' = GwRet("inbound", from, path, 1, NoAgent)
            /\ UNCHANGED agentInstance
       [] path = "reset" ->
            /\ inbound' = BagAdd(inbound, Handler(from, "notify"))
            /\ gwRet' = GwRet("inbound", from, path, 1, NoAgent)
            /\ UNCHANGED <<sessions, agentInstance>>
       [] path = "message" ->
            /\ RunConversation(from)
            /\ UNCHANGED sessions

\* initialize() resolves and runConversation invokes processMessage on the
\* module's agent.
InitializeDone(h) ==
  /\ h \in DOMAIN inbound /\ h.stage = "initializing"
  /\ agentInstance.initialized
  /\ inbound' = BagReplace(inbound, h, Handler(h.from, "processing"))
  /\ gwRet' = GwRet("initialized", h.from, "message", 0, agentInstance)
  /\ UNCHANGED <<sessions, agentInstance, handled>>

\* initialize() rejects: the handler logs and sends its apology; the
\* module's agent stays assigned.
InitializeFails(h) ==
  /\ h \in DOMAIN inbound /\ h.stage = "initializing"
  /\ ~agentInstance.initialized
  /\ inbound' = BagReplace(inbound, h, Handler(h.from, "apologizing"))
  /\ gwRet' = GwRet("agentError", h.from, "message", 0, NoAgent)
  /\ UNCHANGED <<sessions, agentInstance, handled>>

\* processMessage resolves and the handler sends the reply.
ProcessDone(h) ==
  /\ h \in DOMAIN inbound /\ h.stage = "processing"
  /\ inbound' = BagReplace(inbound, h, Handler(h.from, "replying"))
  /\ gwRet' = GwRet("processed", h.from, "message", 0, NoAgent)
  /\ UNCHANGED <<sessions, agentInstance, handled>>

\* processMessage rejects: the handler logs and sends its apology.
ProcessFails(h) ==
  /\ h \in DOMAIN inbound /\ h.stage = "processing"
  /\ inbound' = BagReplace(inbound, h, Handler(h.from, "apologizing"))
  /\ gwRet' = GwRet("agentError", h.from, "message", 0, NoAgent)
  /\ UNCHANGED <<sessions, agentInstance, handled>>

\* client.messages.create resolves and the handler returns.
SendDone(h) ==
  /\ h \in DOMAIN inbound /\ h.stage \in {"notify", "replying", "apologizing"}
  /\ inbound' = BagRemove(inbound, h)
  /\ gwRet' = GwRet("sent", h.from, h.stage, 0, NoAgent)
  /\ UNCHANGED <<sessions, agentInstance, handled>>

\* client.messages.create rejects: a failed reply is followed by the
\* apology, any other failure is swallowed.
SendFails(h) ==
  /\ h \in DOMAIN inbound /\ h.stage \in {"notify", "replying", "apologizing"}
  /\ inbound' = IF h.stage = "replying"
                  THEN BagReplace(inbound, h, Handler(h.from, "apologizing"))
                  ELSE BagRemove(inbound, h)
  /\ gwRet' = GwRet("sendFailed", h.from, h.stage, 0, NoAgent)
  /\ UNCHANGED <<sessions, agentInstance, handled>>

\* ------------------------------------------------------------- retry backoff
\* The waits p-retry makes between the attempts of one executeWithRetry,
\* computed by the retry package from the instance's retryOptions.
RetryOptions(minTimeout, maxTimeout, factor, r) ==
  [minTimeout |-> minTimeout, maxTimeout |-> maxTimeout, factor |-> factor, retries |-> r]
\* The defaults of the constructor, in ticks of 1000 ms and capped at 4.
DefaultRetryOptions == RetryOptions(1, 4, 2, 3)

Min(a, b) == IF a < b THEN a ELSE b
Max(a, b) == IF a > b THEN a ELSE b
RECURSIVE Pow(_, _)
\* Math.pow on naturals (Math.pow(0, 0) is 1).
Pow(b, e) == IF e = 0 THEN 1 ELSE b * Pow(b, e - 1)

\* A variant without the cap.
CreateTimeout_Uncapped(attempt, opts) ==
  Max(opts.minTimeout, 1) * Pow(opts.factor, attempt)

\* retry.createTimeout(attempt, opts) with randomize off: round
\* (max(minTimeout, 1) * factor^attempt), capped at maxTimeout. Rounding is
\* the identity on the integers used here.
CreateTimeout(attempt, opts) ==
  Min(Max(opts.minTimeout, 1) * Pow(opts.factor, attempt), opts.maxTimeout)

RECURSIVE InsertSorted(_, _)
InsertSorted(sq, x) ==
  IF sq = <<>> THEN <<x>>
  ELSE IF x < Head(sq) THEN <<x>> \o sq
  ELSE <<Head(sq)>> \o InsertSorted(Tail(sq), x)
RECURSIVE SortAscending(_)
\* timeouts.sort((a, b) => a - b)
SortAscending(sq) ==
  IF sq = <<>> THEN <<>> ELSE InsertSorted(SortAscending(Tail(sq)), Head(sq))

\* retry.timeouts(opts): one wait per retry, sorted ascending.
Timeouts(opts) ==
  SortAscending([i \in 1..opts.retries |-> CreateTimeout(i - 1, opts)])

QuietBO ==
  /\ retryOptions = DefaultRetryOptions
  /\ waited = <<>>

\* An instance constructed with any retry options whose minTimeout does not
\* exceed maxTimeout.
InitBO ==
  /\ retryOptions \in { RetryOptions(lo, hi, f, r) :
                          lo \in 0..MaxBackoff, hi \in 0..MaxBackoff,
                          f \in 0..MaxFactor, r \in 0..MaxBackoffRetries }
  /\ retryOptions.minTimeout <= retryOptions.maxTimeout
  /\ waited = <<>>

\* An attempt fails with a retried error and retries are left: p-retry waits
\* the next of the timeouts before it runs the function again.
RetryWaits ==
  /\ Len(waited) < retryOptions.retries
  /\ waited' = Append(waited, Timeouts(retryOptions)[Len(waited) + 1])
  /\ UNCHANGED retryOptions

\* The execute() settles and the next execute() starts with all its waits.
NextExecute ==
  /\ waited # <<>>
  /\ waited' = <<>>
  /\ UNCHANGED retryOptions

\* ---------------------------------------------------------- specifications
NextRF ==
  \/ \E a \in Args : Execute(a) /\ UNCHANGED exceptRF
  \/ \E c \in DOMAIN calls : AttemptResolves(c) /\ UNCHANGED exceptRF
  \/ \E c \in DOMAIN calls, e \in FnThrows : AttemptRejects(c, e) /\ UNCHANGED exceptRF
  \/ \E c \in DOMAIN calls : BackoffEnds(c) /\ UNCHANGED exceptRF
  \/ \E c \in DOMAIN calls : CallTimeout(c) /\ UNCHANGED exceptRF
  \/ ResetTimer /\ UNCHANGED exceptRF
  \/ RotateBucket /\ UNCHANGED exceptRF

\* The other components stay as constructed.
InitSpecRF == InitRF /\ QuietMQ /\ QuietCache /\ QuietPool /\ QuietCP /\ QuietGW /\ QuietBO

SpecRF == InitSpecRF /\ [][NextRF]_vars

\* Two instances: every step of a call is a step of the instance the
\* variables describe and leaves the other instance alone. The run is
\* shorter than the rolling window, so no bucket is dropped.
NextRF2 ==
  \/ \E a \in Args : ExecuteOne(a) /\ UNCHANGED rf2Vars /\ UNCHANGED exceptRF2
  \/ \E c \in DOMAIN calls : AttemptResolves(c) /\ UNCHANGED rf2Vars /\ UNCHANGED exceptRF2
  \/ \E c \in DOMAIN calls, e \in TwoThrows :
       AttemptRejects(c, e) /\ UNCHANGED rf2Vars /\ UNCHANGED exceptRF2
  \/ \E c \in DOMAIN calls : CallTimeout(c) /\ UNCHANGED rf2Vars /\ UNCHANGED exceptRF2
  \/ ResetTimer /\ UNCHANGED rf2Vars /\ UNCHANGED exceptRF2
  \/ Switch /\ UNCHANGED exceptRF2

\* One instance with an observer, the wrapped function rejecting with a
\* retried or a non-retryable error; the run is shorter than the rolling
\* window.
NextObs ==
  \/ \E a \in Args : Execute(a) /\ UNCHANGED exceptRF
  \/ \E c \in DOMAIN calls : AttemptResolves(c) /\ UNCHANGED exceptRF
  \/ \E c \in DOMAIN calls, e \in TwoThrows : AttemptRejects(c, e) /\ UNCHANGED exceptRF
  \/ \E c \in DOMAIN calls : BackoffEnds(c) /\ UNCHANGED exceptRF
  \/ \E c \in DOMAIN calls : CallTimeout(c) /\ UNCHANGED exceptRF
  \/ ResetTimer /\ UNCHANGED exceptRF

InitSpecObs == InitObs /\ QuietMQ /\ QuietCache /\ QuietPool /\ QuietCP /\ QuietGW /\ QuietBO

SpecObs == InitSpecObs /\ [][NextObs]_vars

\* The breaker's timer of a call that is still awaited fires sooner or later,
\* whether or not the wrapped function ever answers.
TimerFires == \E c \in DOMAIN calls : CallTimeout(c)

LiveSpecObs == InitSpecObs /\ [][NextObs]_vars /\ WF_rfVars(TimerFires)

InitSpecRF2 == InitRF2 /\ QuietMQ /\ QuietCache /\ QuietPool /\ QuietCP /\ QuietGW /\ QuietBO

SpecRF2 == InitSpecRF2 /\ [][NextRF2]_vars

NextMQ ==
  \/ \E d \in Payloads : Enqueue(d) /\ UNCHANGED exceptMQ
  \/ \E m \in enqPending : LpushDone(m) /\ UNCHANGED exceptMQ
  \/ \E m \in enqPending : LpushFails(m) /\ UNCHANGED exceptMQ
  \/ ForeignPush /\ UNCHANGED exceptMQ
  \/ Dequeue /\ UNCHANGED exceptMQ
  \/ BrpopPops /\ UNCHANGED exceptMQ
  \/ BrpopTimesOut /\ UNCHANGED exceptMQ
  \/ BrpopFails /\ UNCHANGED exceptMQ
  \/ \E t \in DOMAIN deqReplies : DequeueReturns(t) /\ UNCHANGED exceptMQ

\* The other components stay as constructed.
InitSpecMQ == InitMQ /\ QuietRF /\ QuietCache /\ QuietPool /\ QuietCP /\ QuietGW /\ QuietBO

SpecMQ == InitSpecMQ /\ [][NextMQ]_vars

\* BRPOP is called with a wait of 1 s: the server answers every blocked
\* dequeue() with an item, with nothing after the wait, or with an error;
\* and a dequeue() that has its item goes on to parse it.
BrpopAnswers == BrpopPops \/ BrpopTimesOut \/ BrpopFails
DequeueParses == \E t \in DOMAIN deqReplies : DequeueReturns(t)
\* One consumer, or two that overlap.
InitLiveMQ ==
  /\ mqClients \in {1, 2}
  /\ list = <<>>
  /\ nextId = 1
  /\ enqPending = {}
  /\ deqWaiting = 0
  /\ deqReplies = EmptyBag
  /\ pushedLog = <<>>
  /\ returned = <<>>
  /\ mqRet = MqNothing
InitSpecLiveMQ == InitLiveMQ /\ QuietRF /\ QuietCache /\ QuietPool /\ QuietCP /\ QuietGW /\ QuietBO
LiveSpecMQ ==
  InitSpecLiveMQ /\ [][NextMQ]_vars /\ WF_mqVars(BrpopAnswers) /\ WF_mqVars(DequeueParses)

NextCache ==
  \/ \E k \in Keys : CacheGet(k) /\ UNCHANGED exceptCache
  \/ \E o \in DOMAIN cacheOps : RedisGetDone(o) /\ UNCHANGED exceptCache
  \/ \E o \in DOMAIN cacheOps : RedisGetFails(o) /\ UNCHANGED exceptCache
  \/ \E k \in Keys, v \in CacheValues : CacheSet(k, v, 0) /\ UNCHANGED exceptCache
  \/ \E o \in DOMAIN cacheOps : RedisSetexDone(o) /\ UNCHANGED exceptCache
  \/ \E o \in DOMAIN cacheOps : RedisSetexFails(o) /\ UNCHANGED exceptCache
  \/ \E k \in Keys : CacheDelete(k) /\ UNCHANGED exceptCache
  \/ \E o \in DOMAIN cacheOps : RedisDelDone(o) /\ UNCHANGED exceptCache
  \/ \E o \in DOMAIN cacheOps : RedisDelFails(o) /\ UNCHANGED exceptCache
  \/ \E k \in Keys, t \in {Nil, BadText} : RedisChanges(k, t) /\ UNCHANGED exceptCache

\* The other components stay as constructed.
InitSpecCache == InitCache /\ QuietRF /\ QuietMQ /\ QuietPool /\ QuietCP /\ QuietGW /\ QuietBO

SpecCache == InitSpecCache /\ [][NextCache]_vars

NextCacheLru ==
  \/ \E k \in LruKeys : CacheGet(k) /\ UNCHANGED exceptCache
  \/ \E o \in DOMAIN cacheOps : RedisGetDone(o) /\ UNCHANGED exceptCache
  \/ \E o \in DOMAIN cacheOps : RedisGetFails(o) /\ UNCHANGED exceptCache
  \/ \E k \in LruKeys, v \in {"v1", Undefined} : CacheSet(k, v, 0) /\ UNCHANGED exceptCache
  \/ \E o \in DOMAIN cacheOps : RedisSetexDone(o) /\ UNCHANGED exceptCache
  \/ \E o \in DOMAIN cacheOps : RedisSetexFails(o) /\ UNCHANGED exceptCache
  \/ \E k \in LruKeys : CacheDelete(k) /\ UNCHANGED exceptCache
  \/ \E o \in DOMAIN cacheOps : RedisDelDone(o) /\ UNCHANGED exceptCache
  \/ \E o \in DOMAIN cacheOps : RedisDelFails(o) /\ UNCHANGED exceptCache
  \/ CacheClear /\ UNCHANGED exceptCache
  \/ \E o \in DOMAIN cacheOps : RedisFlushDone(o) /\ UNCHANGED exceptCache
  \/ \E o \in DOMAIN cacheOps : RedisFlushFails(o) /\ UNCHANGED exceptCache

\* The other components stay as constructed.
InitSpecCacheLru == InitCacheLru /\ QuietRF /\ QuietMQ /\ QuietPool /\ QuietCP /\ QuietGW /\ QuietBO

SpecCacheLru == InitSpecCacheLru /\ [][NextCacheLru]_vars

NextCacheTtl ==
  \/ \E k \in Keys : CacheGet(k) /\ UNCHANGED exceptCache
  \/ \E k \in Keys, v \in CacheValues, ttlMs \in 0..CacheTtl :
       CacheSet(k, v, ttlMs) /\ UNCHANGED exceptCache
  \/ \E k \in Keys : CacheDelete(k) /\ UNCHANGED exceptCache
  \/ CacheClear /\ UNCHANGED exceptCache
  \/ CacheTick /\ UNCHANGED exceptCache

\* The other components stay as constructed.
InitSpecCacheTtl == InitCacheTtl /\ QuietRF /\ QuietMQ /\ QuietPool /\ QuietCP /\ QuietGW /\ QuietBO

SpecCacheTtl == InitSpecCacheTtl /\ [][NextCacheTtl]_vars

NextShared ==
  \/ \E d \in Payloads : Enqueue(d) /\ UNCHANGED cacheVars /\ UNCHANGED exceptShared
  \/ \E m \in enqPending : LpushDone(m) /\ UNCHANGED cacheVars /\ UNCHANGED exceptShared
  \/ \E k \in Keys : CacheSet(k, "v1", 0) /\ UNCHANGED mqVars /\ UNCHANGED exceptShared
  \/ \E o \in DOMAIN cacheOps : RedisSetexDone(o) /\ UNCHANGED mqVars /\ UNCHANGED exceptShared
  \/ CacheClear /\ UNCHANGED mqVars /\ UNCHANGED exceptShared
  \/ \E o \in DOMAIN cacheOps : Flushdb(o) /\ UNCHANGED exceptShared
  \/ \E o \in DOMAIN cacheOps : RedisFlushFails(o) /\ UNCHANGED mqVars /\ UNCHANGED exceptShared

InitSpecShared == InitShared /\ QuietRF /\ QuietPool /\ QuietCP /\ QuietGW /\ QuietBO

SpecShared == InitSpecShared /\ [][NextShared]_vars

NextPool ==
  \/ \E sid \in SessionIds : RegisterAgentCreator(sid) /\ UNCHANGED exceptPool
  \/ \E sid \in SessionIds : GetAgent(sid) /\ UNCHANGED exceptPool
  \/ \E sid \in DOMAIN creating : CreatorResolves(sid) /\ UNCHANGED exceptPool
  \/ \E sid \in DOMAIN creating : CreatorRejects(sid) /\ UNCHANGED exceptPool
  \/ Cleanup /\ UNCHANGED exceptPool
  \/ PoolTick /\ UNCHANGED exceptPool

\* The other components stay as constructed.
InitSpecPool == InitPool /\ QuietRF /\ QuietMQ /\ QuietCache /\ QuietCP /\ QuietGW /\ QuietBO

SpecPool == InitSpecPool /\ [][NextPool]_vars

NextCP ==
  \/ \E kind \in Kinds : InitHandle(kind) /\ UNCHANGED exceptCP
  \/ \E p \in cpProbing : ProbeSucceeds(p) /\ UNCHANGED exceptCP
  \/ \E p \in cpProbing : ProbeFails(p) /\ UNCHANGED exceptCP
  \/ \E kind \in Kinds : Get(kind) /\ UNCHANGED exceptCP
  \/ Close /\ UNCHANGED exceptCP
  \/ \E kind \in cpClosing : EndResolves(kind) /\ UNCHANGED exceptCP
  \/ \E kind \in cpClosing : EndRejects(kind) /\ UNCHANGED exceptCP

\* The other components stay as constructed.
InitSpecCP == InitCP /\ QuietRF /\ QuietMQ /\ QuietCache /\ QuietPool /\ QuietGW /\ QuietBO

SpecCP == InitSpecCP /\ [][NextCP]_vars

NextGW ==
  \/ \E from \in Sessions \cup {NoFrom}, body \in Bodies :
       Inbound(from, body) /\ UNCHANGED exceptGW
  \/ \E h \in DOMAIN inbound : InitializeDone(h) /\ UNCHANGED exceptGW
  \/ \E h \in DOMAIN inbound : InitializeFails(h) /\ UNCHANGED exceptGW
  \/ \E h \in DOMAIN inbound : ProcessDone(h) /\ UNCHANGED exceptGW
  \/ \E h \in DOMAIN inbound : ProcessFails(h) /\ UNCHANGED exceptGW
  \/ \E h \in DOMAIN inbound : SendDone(h) /\ UNCHANGED exceptGW
  \/ \E h \in DOMAIN inbound : SendFails(h) /\ UNCHANGED exceptGW

\* The other components stay as constructed.
InitSpecGW == InitGW /\ QuietRF /\ QuietMQ /\ QuietCache /\ QuietPool /\ QuietCP /\ QuietBO

SpecGW == InitSpecGW /\ [][NextGW]_vars

NextBO ==
  \/ RetryWaits /\ UNCHANGED exceptBO
  \/ NextExecute /\ UNCHANGED exceptBO

\* The other components stay as constructed.
InitSpecBO == InitBO /\ QuietRF /\ QuietMQ /\ QuietCache /\ QuietPool /\ QuietCP /\ QuietGW

SpecBO == InitSpecBO /\ [][NextBO]_vars

\* ------------------------------------------------- ResilientFunction: claims

\* A step in which execute() was called: the call is recorded in the window.
FireStep == Stats(window').fires > Stats(window).fires
\* A step in which the breaker counted a failure.
FailureStep == Stats(window').failures > Stats(window).failures
\* Callers still waiting for their execute().
Waiting == { c \in DOMAIN calls : c.caller = "waiting" }

\* The non-retryable errors as the claims list them.
Permanent(e) ==
  e.statusCode \in {400, 401, 403, 404} \/ e.code \in {"INVALID_INPUT", "AUTHENTICATION_FAILED"}
\* The errors p-retry retries: Error instances that are no TypeError and
\* carry none of the non-retryable marks.
Retried(e) == e.cls = "Error" /\ ~Permanent(e)

\* C1: while the breaker is open, an execute() call rejects with the breaker's
\* own circuit-open error, which is no error of the wrapped function, and the
\* wrapped function is not invoked for it (no call joins the calls in flight).
C1_OpenRejectsWithoutInvoking ==
  [][(brState = "open" /\ FireStep) =>
       /\ settled'.ev = "rejected"
       /\ settled'.res = OpenBreakerError
       /\ settled'.res.src = "breaker"
       /\ \A e \in FnThrows, n \in 0..MaxInFlightAttempts : settled'.res # SameError(e, n)
       /\ settled'.attempts = 0
       /\ calls' = calls
       /\ brState' = "open"]_vars

C1_Witness ==
  /\ brState = "open"
  /\ settled.ev = "rejected"
  /\ settled.res = OpenBreakerError
  /\ settled.attempts = 0

C3_NonRetryableOnce ==
  /\ \A c \in DOMAIN calls : \A i \in 1..Len(c.errors) : ~Permanent(c.errors[i])
  /\ \A i \in 1..Len(settled.errors) :
       Permanent(settled.errors[i]) =>
         /\ i = Len(settled.errors)
         /\ settled.attempts = i
         /\ settled.ev \in {"rejected", "discarded"}
         /\ ~settled.res.ok
  /\ (Len(settled.errors) > 0 /\ Permanent(settled.errors[1])) => settled.attempts = 1

C3_Witness ==
  /\ retries = MaxInFlightAttempts - 1
  /\ settled.ev = "rejected"
  /\ settled.attempts = 1
  /\ Len(settled.errors) = 1
  /\ settled.errors[1].statusCode = 404

\* The latest step ended a retry loop (and did not merely time a caller out
\* or turn a call away).
LoopEnded ==
  \/ settled.ev \in {"resolved", "discarded"}
  \/ settled.ev = "rejected" /\ settled.res.src # "breaker"
\* The loop ended with a resolving attempt ...
EndedBySuccess == LoopEnded /\ settled.attempts = Len(settled.errors) + 1
\* ... or with a rejecting one.
EndedByFailure == LoopEnded /\ settled.attempts = Len(settled.errors)

\* What C4 says of the invocations: at least one, at most retries + 1, each
\* with the arguments of the execute() call.
AttemptsBounded ==
  /\ \A c \in DOMAIN calls :
       /\ c.attempts >= 1
       /\ c.attempts <= retries + 1
       /\ c.invoked = c.args
       /\ c.args \in Args
  /\ settled.attempts <= retries + 1
  /\ (retries = 0 /\ settled.ev # "none" /\ settled.res # OpenBreakerError) => settled.attempts = 1

RECURSIVE CountInSeq(_, _, _)
\* How many stored strings of l from position i on carry message id.
CountInSeq(l, id, i) ==
  IF i > Len(l) THEN 0
  ELSE (IF l[i].id = id THEN 1 ELSE 0) + CountInSeq(l, id, i + 1)

\* How many dequeue() calls hold message id on its way to their caller.
HeldBy(id) ==
  BagSum(deqReplies, { t \in DOMAIN deqReplies : t.json /\ t.id = id })

\* C6 as stated: with calls made one after the other, the k-th message
\* dequeue() returns is the k-th enqueued one: the id enqueue() returned, the
\* payload it was given, attempts 0.
C6_FifoSamePayload ==
  mqClients = 1 =>
    /\ Len(returned) <= Len(pushedLog)
    /\ \A i \in 1..Len(returned) :
         /\ returned[i].id = pushedLog[i].id
         /\ returned[i].data = pushedLog[i].data
         /\ returned[i].attempts = 0

\* C6 (amended): the same, the data field being the payload after its trip
\* through JSON (the payload itself when JSON represents it, null for NaN).
C6_FifoJsonImage ==
  mqClients = 1 =>
    /\ Len(returned) <= Len(pushedLog)
    /\ \A i \in 1..Len(returned) :
         /\ returned[i].id = pushedLog[i].id
         /\ returned[i].data = JsonImage(pushedLog[i].data)
         /\ (pushedLog[i].data = "a" => returned[i].data = pushedLog[i].data)
         /\ returned[i].attempts = 0

C6_Witness ==
  /\ mqClients = 1
  /\ Len(returned) = MaxMessages
  /\ Len(pushedLog) = MaxMessages
  /\ pushedLog[1].data = "a"
  /\ pushedLog[2].data = "NaN"
  /\ list = <<>>

GetResults(k) ==
  IF LocalGet(memoryCache, k) # Undefined THEN { LocalGet(memoryCache, k) }
  ELSE IF ~hasRedis THEN { Null }
  ELSE { GetFromReply(redisKeys[k]).res, GetFromFailure.res }

\* set() has just returned to a caller whose operations do not overlap.
SetReturned == cacheRet.op = "set" /\ cacheOpsMax = 1

\* C8 (as stated): once set(k, v) has come back, whether the remote tier is
\* absent, stored the value or failed, set() has not rejected and a get(k)
\* called next returns v, for every v.
C8_SetThenGet ==
  /\ cacheRet.op = "set" => cacheRet.outcome = "returned"
  /\ SetReturned => GetResults(cacheRet.key) = { cacheRet.arg }

\* C8 (amended): the same for every v other than undefined (set(k, undefined)
\* removes the local entry, so the next get(k) answers from the remote tier).
C8_SetThenGetDefined ==
  /\ cacheRet.op = "set" => cacheRet.outcome = "returned"
  /\ SetReturned /\ cacheRet.arg # Undefined => GetResults(cacheRet.key) = { cacheRet.arg }

\* set() came back after the remote write failed, into a full local tier that
\* held another key, with a value that JSON does not preserve.
C8_Witness ==
  /\ SetReturned
  /\ hasRedis
  /\ cacheRet.via = "writeError"
  /\ cacheRet.arg = "NaN"
  /\ cacheMax = 1
  /\ redisKeys[cacheRet.key] = Nil
  /\ \E k \in Keys : k # cacheRet.key /\ redisKeys[k] # Nil
  /\ GetResults(cacheRet.key) = { "NaN" }

\* Paths of get() after a local miss on which the remote tier gave no value.
NoValuePaths == {"miss", "readError", "parseError"}

\* C9: get() never rejects; a get() that missed locally and found no remote
\* key, a failing remote read or an unparseable remote string returns null,
\* and neither its call nor its return changes the local tier.
C9_GetNeverRejects ==
  [][ /\ cacheRet'.op = "get" => cacheRet'.outcome = "returned"
      /\ cacheRet'.op = "get" /\ cacheRet'.via \in NoValuePaths =>
           cacheRet'.res = Null /\ memoryCache' = memoryCache
      /\ (\E o \in DOMAIN cacheOps' : o.op = "get" /\ cacheOps' = BagAdd(cacheOps, o)) =>
           memoryCache' = memoryCache ]_vars

\* A get() of a key whose remote string is no JSON returned null while the
\* local tier held another entry.
C9_Witness ==
  /\ cacheRet.op = "get"
  /\ cacheRet.via = "parseError"
  /\ cacheRet.res = Null
  /\ redisKeys[cacheRet.key] = BadText
  /\ Len(memoryCache) = 1
  /\ memoryCache[1].key # cacheRet.key

\* --------------------------------------------------------- AgentPool: claims

\* C10 (as stated): the pool never holds more than maxSize entries.
C10_SizeBounded == PoolSize(warmAgents) <= poolMax

\* The entry of session id sid in pool l (only used where one exists).
WarmOf(l, sid) == l[PoolIndex(l, sid, 1)]
\* Session id sid has an entry in pool l.
InPool(l, sid) == PoolIndex(l, sid, 1) # 0
\* A step in which getAgent(sid) awaits the creator: the factory is invoked.
Invokes(sid) == creating' = BagAdd(creating, sid)

\* C11: getAgent(s) hands out the agent of an entry only while that entry
\* is younger than ttlMs, and then it is that entry's agent and nothing
\* changes; while the entry of s is younger than ttlMs no getAgent(s) invokes
\* the factory; any other agent getAgent(s) returns was just made by the
\* factory, is no agent of the pool so far, and is now the entry of s with a
\* fresh timestamp.
C11_WarmWithinTtl ==
  [][\A sid \in SessionIds :
       /\ (poolRet'.op = "getAgent" /\ poolRet'.sid = sid /\ poolRet'.outcome = "warm") =>
            /\ InPool(warmAgents, sid)
            /\ WarmOf(warmAgents, sid).age < PoolTtl
            /\ poolRet'.agent = WarmOf(warmAgents, sid).agent
            /\ UNCHANGED <<warmAgents, creating, nextAgent>>
       /\ (InPool(warmAgents, sid) /\ WarmOf(warmAgents, sid).age < PoolTtl) => ~Invokes(sid)
       /\ (poolRet'.op = "getAgent" /\ poolRet'.sid = sid /\ poolRet'.outcome = "created"
             /\ nextAgent' # nextAgent) =>
            /\ InPool(warmAgents', sid)
            /\ WarmOf(warmAgents', sid) = Warm(sid, poolRet'.agent, 0)
            /\ poolRet'.agent = nextAgent
            /\ \A i \in 1..Len(warmAgents) : warmAgents[i].agent # poolRet'.agent
    ]_vars

\* getAgent(s) has returned a second agent made for s, the only session with
\* a creator, and the entry of s now holds that agent with a fresh timestamp.
C11_Witness ==
  /\ poolRet.op = "getAgent"
  /\ poolRet.outcome = "created"
  /\ poolRet.agent = 2
  /\ warmAgents = <<Warm(poolRet.sid, 2, 0)>>
  /\ agentCreators = {poolRet.sid}

\* ------------------------------------------- ResilientFunction: more claims

\* The error of the attempt that ended the retry loop.
LastThrown == settled.errors[Len(settled.errors)]

\* C12 (as stated): when retries + 1 attempts failed with retried errors and
\* the breaker's timeout did not come first, execute() rejects with the very
\* error the last attempt threw.
C12_LastErrorPropagated ==
  (/\ settled.ev = "rejected"
   /\ EndedByFailure
   /\ settled.attempts = retries + 1
   /\ \A i \in 1..Len(settled.errors) : Retried(settled.errors[i]))
    => settled.res = SameError(LastThrown, settled.attempts)

\* C13 (as stated): when an attempt fails with a non-retryable error,
\* execute() rejects with the very error that attempt threw, statusCode and
\* code included.
C13_OriginalErrorPropagated ==
  (/\ settled.ev = "rejected"
   /\ EndedByFailure
   /\ Len(settled.errors) > 0
   /\ Permanent(LastThrown))
    => /\ settled.res = SameError(LastThrown, settled.attempts)
       /\ settled.res.statusCode = LastThrown.statusCode
       /\ settled.res.code = LastThrown.code

\* A step in which the breaker's timeout fires for call c.
TimesOut(c) ==
  /\ c.caller = "waiting"
  /\ calls' = BagReplace(calls, c, [c EXCEPT !.caller = "timedOut"])
\* A step of call c, timed out before: it ends, or goes on as d.
LateStep(c) ==
  /\ c.caller = "timedOut"
  /\ calls' # calls
  /\ \/ calls' = BagRemove(calls, c)
     \/ \E d \in DOMAIN calls' : d.caller = "timedOut" /\ calls' = BagReplace(calls, c, d)

\* C14: when the breaker's timeout fires for a call in flight, the caller is
\* rejected with the timeout error in that step and the window counts one
\* more failure; whatever the timed-out call does later delivers nothing to
\* a caller and changes neither the window nor the breaker's state.
C14_TimeoutCountsOnce ==
  [][\A c \in DOMAIN calls :
       /\ TimesOut(c) =>
            /\ settled'.ev = "rejected"
            /\ settled'.res = TimedOutError
            /\ Stats(window').failures = Stats(window).failures + 1
            /\ Stats(window').successes = Stats(window).successes
            /\ Stats(window').fires = Stats(window).fires
       /\ LateStep(c) =>
            /\ settled'.ev \in {"none", "discarded"}
            /\ ~settled'.res.ok
            /\ window' = window
            /\ brState' = brState
            /\ pendingClose' = pendingClose
    ]_vars

\* The only call recorded timed out (one failure) and then resolved at its
\* first attempt: the value was dropped and no success was counted.
C14_Witness ==
  /\ settled.ev = "discarded"
  /\ settled.attempts = 1
  /\ settled.errors = <<>>
  /\ Stats(window) = [fires |-> 1, failures |-> 1, successes |-> 0]
  /\ brState = "open"

\* C15 (as stated): the failure of the only execute() the window has seen
\* leaves a closed breaker closed.
C15_SingleFailureStaysClosed ==
  [][(brState = "closed" /\ FailureStep /\ Stats(window').fires = 1)
       => brState' = "closed"]_vars

\* The fields of instance id.
InstanceState(id) ==
  IF rfActive = id THEN Instance(retries, brState, pendingClose, window, calls) ELSE rfOther

\* C27: no step of a call on one instance -- execute(), a success, a failure,
\* a timeout, the opening or half-opening of its breaker -- changes the
\* breaker state, the rolling counters or anything else of the other
\* instance; and an execute() is rejected by the breaker only when the
\* breaker of its own instance does not admit it, whatever the state of the
\* other instance's breaker.
C27_InstancesIsolated ==
  [][ /\ \A id \in Instances : id # rfActive => InstanceState(id)' = InstanceState(id)
      /\ rfActive' # rfActive => \A id \in Instances : InstanceState(id)' = InstanceState(id)
      /\ (rfActive' = rfActive /\ settled'.res = OpenBreakerError) =>
           brState = "open" \/ (brState = "halfOpen" /\ ~pendingClose)
      /\ (rfActive' = rfActive /\ brState = "closed"
            /\ Stats(window').fires = Stats(window).fires + 1) =>
           BagSize(calls') = BagSize(calls) + 1 ]_vars

\* A call on one instance resolved while the breaker of the other instance,
\* opened by a failure, was still open.
C27_Witness ==
  /\ settled.ev = "resolved"
  /\ brState = "closed"
  /\ Stats(window) = [fires |-> 1, failures |-> 0, successes |-> 1]
  /\ rfOther.brState = "open"
  /\ Stats(rfOther.window).failures = 1

\* ------------------------------------------------ MessageQueue: more claims

\* A step in which the LPUSH of an enqueue() failed: the enqueue() is over
\* and the list is as it was.
LpushFailed == enqPending' # enqPending /\ enqPending' \subseteq enqPending /\ list' = list
\* A step in which the BRPOP of a dequeue() failed: the list held an item,
\* the dequeue() is over and the list is as it was.
BrpopFailed == list # <<>> /\ deqWaiting' < deqWaiting /\ list' = list

\* C16 (as stated): an enqueue() or dequeue() whose remote command failed
\* does not reject.
C16_QueueSwallowsRemoteFailure ==
  [][(LpushFailed \/ BrpopFailed) => mqRet'.outcome # "rejected"]_vars

\* A dequeue() is under way.
Dequeuing == deqWaiting + BagSize(deqReplies) > 0

\* C24: a dequeue() under way comes to an end; one whose BRPOP wait ended
\* with no item returns null and takes nothing from the list; one whose
\* popped string is no JSON returns null as well and hands no message out;
\* neither rejects.
C24_DequeueReturnsNull ==
  /\ [][ /\ BrpopTimesOut =>
              /\ mqRet' = MqRet("dequeue", "returnedNull", NoMessage)
              /\ UNCHANGED <<list, returned>>
         /\ \A t \in DOMAIN deqReplies :
              ~t.json /\ DequeueReturns(t) =>
                /\ mqRet' = MqRet("dequeue", "returnedNull", NoMessage)
                /\ UNCHANGED <<list, returned>> ]_vars
  /\ (Dequeuing ~> mqRet.op = "dequeue")

\* A consumer that had taken a message before got null for a string that is
\* no JSON, with more messages waiting in the list.
C24_Witness ==
  /\ mqRet = MqRet("dequeue", "returnedNull", NoMessage)
  /\ list # <<>>
  /\ Len(returned) >= 1
  /\ \A i \in 1..Len(list) : list[i].json

\* -------------------------------------------------- AgentCache: more claims

\* A get(k) adds a read of the remote tier to the operations in flight.
RemoteRead(k) == cacheOps' = BagAdd(cacheOps, CacheOp("get", k, Undefined))

\* C17: get(k) looks in the local tier first: on a local hit it returns the
\* local value and starts no remote read; a get(k) that missed locally and
\* found the key remotely returns the remote value and leaves it in the local
\* tier, so that a get(k) called next is a local hit on that value.
C17_LocalFirst ==
  [][ /\ \A k \in LruKeys :
           LocalGet(memoryCache, k) # Undefined /\ CacheGet(k) =>
             /\ cacheRet' = CacheRet("get", k, Undefined, "returned",
                                     LocalGet(memoryCache, k), "memory")
             /\ ~RemoteRead(k)
             /\ UNCHANGED <<cacheOps, redisKeys>>
      /\ \A o \in DOMAIN cacheOps :
           o.op = "get" /\ redisKeys[o.key] \notin {Nil, EmptyText, BadText} /\ RedisGetDone(o) =>
             /\ cacheRet'.op = "get" /\ cacheRet'.key = o.key
             /\ cacheRet'.res = redisKeys[o.key]
             /\ LocalGet(memoryCache', o.key) = cacheRet'.res
             /\ GetResults(o.key)' = { cacheRet'.res } ]_vars

\* A get() that missed locally returned the remote value and stored it in a
\* local tier of one entry, which held another key before.
C17_Witness ==
  /\ cacheRet.op = "get"
  /\ cacheRet.via = "redis"
  /\ cacheRet.res = "v1"
  /\ cacheMax = 1
  /\ memoryCache = <<Entry(cacheRet.key, "v1", CacheTtl)>>
  /\ \E k \in LruKeys : k # cacheRet.key /\ redisKeys[k] = "v1"

\* The keys of the local tier, least recently used first.
KeysOf(l) == [i \in 1..Len(l) |-> l[i].key]
\* Sequence s without its occurrences of k.
Others(s, k) == LET Other(x) == x # k IN SelectSeq(s, Other)
\* A step that uses key k: k is the most recently used key afterwards, the
\* other keys keep their order, and the least recently used of them is
\* dropped exactly when k is new and the local tier is full.
UsedStep(k) ==
  LET before == KeysOf(memoryCache)
      after == KeysOf(memoryCache')
  IN /\ after # <<>> /\ after[Len(after)] = k
     /\ Others(after, k) =
          IF Others(before, k) = before /\ Len(before) >= cacheMax
            THEN Tail(before) ELSE Others(before, k)

C19_DeletedStaysGone ==
  /\ cacheRet.op = "delete" => GetResults(cacheRet.key) = { Null }
  /\ cacheRet.op = "clear" => \A k \in DOMAIN redisKeys : GetResults(k) = { Null }

\* C20 (as stated): with no remote tier, once more than the ttl of a set(k, v,
\* ttl) has passed since that set and k was not set again, a get(k) called
\* next returns null, however often k was read since the set.
C20_ExpiresByTtl ==
  ~hasRedis =>
    \A i \in 1..Len(memoryCache) :
      memoryCache[i].sinceSet > memoryCache[i].ttl =>
        GetResults(memoryCache[i].key) = { Null }

\* --------------------------------------------------- AgentPool: more claims

\* C21: a getAgent(s) that finds no entry of s younger than ttlMs and no
\* creator registered for s rejects with the 'No agent creator registered'
\* error, calls no creator and leaves the entries of the pool (session ids,
\* agents, timestamps, order) as they were.
C21_NoCreatorRejects ==
  [][\A sid \in SessionIds :
       /\ sid \notin agentCreators
       /\ ~(InPool(warmAgents, sid) /\ WarmOf(warmAgents, sid).age < PoolTtl)
       /\ GetAgent(sid)
       => /\ poolRet' = PoolRet("getAgent", sid, "noCreator", 0)
          /\ UNCHANGED <<warmAgents, creating, nextAgent, agentCreators>>
    ]_vars

\* getAgent(s) was rejected for want of a creator while the pool held two
\* entries of other sessions, one of them older than the other.
C21_Witness ==
  /\ poolRet.op = "getAgent"
  /\ poolRet.outcome = "noCreator"
  /\ poolRet.sid \notin agentCreators
  /\ Len(warmAgents) = 2
  /\ warmAgents[1].age > warmAgents[2].age
  /\ \A i \in 1..2 : warmAgents[i].sid # poolRet.sid

\* The entries of pool l as a set.
EntriesOf(l) == { l[i] : i \in 1..Len(l) }
\* The entry of l stored earliest: agents are numbered as they are stored.
Earliest(l) == CHOOSE e \in EntriesOf(l) : \A f \in EntriesOf(l) : e.agent <= f.agent
\* The entries of other sessions that a step of session sid removed.
Evicted(sid) == { e \in EntriesOf(warmAgents) : e.sid # sid /\ e \notin EntriesOf(warmAgents') }

\* C22 (as stated): when getAgent(s) has built an agent and the pool is at
\* capacity, the entry stored earliest leaves the pool, no other entry does
\* (the former entry of s apart, which the new one replaces), and the new
\* entry is stored.
C22_EvictsEarliest ==
  [][\A sid \in DOMAIN creating :
       Len(warmAgents) >= poolMax /\ CreatorResolves(sid) =>
         /\ Earliest(warmAgents) \notin EntriesOf(warmAgents')
         /\ Evicted(sid) \subseteq { Earliest(warmAgents) }
         /\ Warm(sid, nextAgent, 0) \in EntriesOf(warmAgents')
    ]_vars

\* C23: cleanup() removes the entries whose age is ttlMs or more and no
\* others: every entry left is younger than ttlMs, and the entries that were
\* younger than ttlMs before are all still there, with their agents and
\* timestamps and in their order; nothing else of the pool changes.
C23_CleanupRemovesExpired ==
  [][ Cleanup =>
        LET Young(e) == e.age < PoolTtl IN
          /\ warmAgents' = SelectSeq(warmAgents, Young)
          /\ \A e \in EntriesOf(warmAgents') : e.age < PoolTtl
          /\ \A e \in EntriesOf(warmAgents) : e.age < PoolTtl => e \in EntriesOf(warmAgents')
          /\ \A e \in EntriesOf(warmAgents) : e.age >= PoolTtl => e \notin EntriesOf(warmAgents')
          /\ UNCHANGED <<agentCreators, creating, nextAgent, poolMax>>
    ]_vars

\* cleanup() has returned in a pool of capacity two in which two agents were
\* stored: the second one, one tick old, is the only entry left.
C23_Witness ==
  /\ poolRet.op = "cleanup"
  /\ poolMax = 2
  /\ nextAgent = 3
  /\ Cardinality(agentCreators) = 2
  /\ Len(warmAgents) = 1
  /\ warmAgents[1].agent = 2 /\ warmAgents[1].age = 1

\* ----------------------------------------------------- ConnectionPool: claims

\* C25: an initPostgres / initRedis called while the handle of its kind is
\* set -- the first init having completed, or still awaiting its probe --
\* constructs nothing, does not reject and returns the instance held, which
\* is the one the first call constructed.
C25_InitIdempotent ==
  [][\A kind \in Kinds :
       cpHandle[kind] # NoInstance /\ InitHandle(kind) =>
         /\ cpRet' = CpRet("init", kind, "returnedExisting", cpHandle[kind])
         /\ UNCHANGED <<cpHandle, cpNext, cpProbing>>
    ]_vars

\* A second initPostgres returned the pool of the first one, whose probe is
\* still awaited, while redis was initialized as well.
C25_Witness ==
  /\ cpRet = CpRet("init", "pg", "returnedExisting", 2)
  /\ Probe("pg", 2) \in cpProbing
  /\ cpHandle = [k \in Kinds |-> IF k = "pg" THEN 2 ELSE 1]
  /\ cpNext = 3

\* C26 (as stated): getPostgres() / getRedis() return a handle only when an
\* init of the instance held has completed successfully, and throw the
\* 'not initialized' error otherwise: before any init, after close(), and
\* after an init whose probe failed.
C26_GetThrowsUnlessInitialized ==
  [][\A kind \in Kinds :
       Get(kind) =>
         IF cpOk[kind] THEN cpRet' = CpRet("get", kind, "returned", cpHandle[kind])
         ELSE cpRet' = CpRet("get", kind, "threwNotInitialized", NoInstance)
    ]_vars

\* ------------------------------------------- ResilientFunction: statistics

\* C30: the statistics count executes, not attempts. A step in which an
\* execute() resolves adds one to stats.successes and nothing to
\* stats.failures; a step in which an execute() that passed the breaker
\* rejects adds one to stats.failures and nothing to stats.successes; no
\* other step (a failed attempt that is retried, a new attempt, a result that
\* arrives after the timeout) adds to either.
C30_StatsCountExecutes ==
  [][ LET before == Stats(window)
          after == Stats(window')
      IN /\ settled'.ev = "resolved" =>
              /\ after.successes = before.successes + 1
              /\ after.failures = before.failures
         /\ (settled'.ev = "rejected" /\ settled'.attempts >= 1) =>
              /\ after.failures = before.failures + 1
              /\ after.successes = before.successes
         /\ ~(settled'.ev = "resolved") => after.successes <= before.successes
         /\ ~(settled'.ev = "rejected" /\ settled'.attempts >= 1) =>
              after.failures <= before.failures ]_vars

\* Two executes have resolved, the latest after a failed attempt.
C30_Witness ==
  /\ settled.ev = "resolved"
  /\ settled.attempts >= 2
  /\ Stats(window).successes = 2
  /\ Stats(window).failures = 0

\* The latest step rejected an execute() because the wrapped function threw
\* a non-retryable error.
RejectedPermanent(st) ==
  /\ st.ev = "rejected"
  /\ st.res # TimedOutError
  /\ Len(st.errors) >= 1
  /\ Permanent(st.errors[Len(st.errors)])

\* C31: a non-retryable failure is counted like any other. An execute() that
\* rejects on a non-retryable error adds one failure to the window; whatever
\* the kind of a counted failure, the breaker is open after it exactly when
\* it was open already, was half-open, or the failure rate of the window is
\* now above the threshold; and an execute() on the open breaker is rejected
\* without a call of the wrapped function.
C31_NonRetryableCounts ==
  [][ /\ RejectedPermanent(settled') =>
           Stats(window').failures = Stats(window).failures + 1
      /\ FailureStep =>
           ( brState' = "open" <=>
               \/ brState \in {"open", "halfOpen"}
               \/ Stats(window').failures * 100
                    > ErrorThresholdPercentage * Stats(window').fires )
      /\ (brState = "open" /\ FireStep) =>
           settled'.res = OpenBreakerError /\ calls' = calls ]_vars

\* The second failure with status 400 of a burst of three executes has just
\* opened the breaker.
C31_Witness ==
  /\ RejectedPermanent(settled)
  /\ settled.errors[Len(settled.errors)].statusCode = 400
  /\ brState = "open"
  /\ Stats(window).failures = 2
  /\ Stats(window).fires = 3

\* ------------------------------------------------- AgentCache: read-through

\* C37 (as stated): a read-through never reinstates older data. When the
\* reply of redis.get lets a get(k) store a value locally while the local
\* tier holds a value of k, put there by a set(k, v1) that has run to
\* completion since the get missed, the local tier goes on to hold v1 (as
\* a trip through JSON renders it).
\* Violated: get stores whatever the remote tier answered.
C37_NoStaleReadThrough ==
  [][ ( /\ cacheRet'.op = "get"
        /\ cacheRet'.via = "redis"
        /\ LocalGet(memoryCache, cacheRet'.key) # Undefined
        /\ \A o \in DOMAIN cacheOps : ~(o.op = "set" /\ o.key = cacheRet'.key) )
      => LocalGet(memoryCache', cacheRet'.key)
           = JsonImage(LocalGet(memoryCache, cacheRet'.key)) ]_vars

\* ------------------------------------------- AgentCache.clear, shared connection

\* C38 (as stated): AgentCache.clear() removes cache entries only. On a
\* connection shared with a MessageQueue, the step that completes clear()
\* leaves the messages of the queue, their order and with them size()
\* unchanged. Violated: clear() issues FLUSHDB.
C38_ClearLeavesQueue ==
  [][ (cacheRet'.op = "clear" /\ cacheOps' # cacheOps) => list' = list ]_vars

\* ------------------------------------------------------- AgentPool: rebuilding

\* C39 (as stated): rebuilding does not evict a bystander. When getAgent(s)
\* stores a new agent for a session whose expired entry is in the pool, no
\* unexpired entry of another session is removed and the pool keeps its
\* size. Violated: the capacity check runs before the entry is replaced.
C39_RebuildKeepsBystanders ==
  [][ ( /\ poolRet'.outcome = "created"
        /\ nextAgent' = nextAgent + 1
        /\ PoolIndex(warmAgents, poolRet'.sid, 1) # 0
        /\ ~Fresh(warmAgents[PoolIndex(warmAgents, poolRet'.sid, 1)]) )
      => /\ Len(warmAgents') = Len(warmAgents)
         /\ \A i \in 1..Len(warmAgents) :
              (warmAgents[i].sid # poolRet'.sid /\ Fresh(warmAgents[i]))
                => PoolIndex(warmAgents', warmAgents[i].sid, 1) # 0 ]_vars

\* The same without the clause on the size of the pool.
C39_UnexpiredBystanderStays ==
  [][ ( /\ poolRet'.outcome = "created"
        /\ nextAgent' = nextAgent + 1
        /\ PoolIndex(warmAgents, poolRet'.sid, 1) # 0
        /\ ~Fresh(warmAgents[PoolIndex(warmAgents, poolRet'.sid, 1)]) )
      => \A i \in 1..Len(warmAgents) :
              (warmAgents[i].sid # poolRet'.sid /\ Fresh(warmAgents[i]))
                => PoolIndex(warmAgents', warmAgents[i].sid, 1) # 0 ]_vars

\* ------------------------------------------------------ gateway: the singleton

\* C40 (as stated): the singleton runner never hands a message to an
\* uninitialized agent. Whenever runConversation goes on to processMessage,
\* at once or after its await, the module's agent is one whose initialize()
\* completed. Violated after an initialize() that rejected.
C40_OnlyInitializedAgents ==
  (gwRet.op \in {"inbound", "initialized"} /\ gwRet.agent # NoAgent) => gwRet.agent.initialized

\* ------------------------------------------------- AgentPool: overlapping calls

\* C36 (as stated): overlapping getAgent(s) calls do not build twice: no two
\* creator() calls of one session are awaited at once, and a getAgent(s)
\* that returns a newly created agent while the pool holds an unexpired entry
\* of s returns the agent of that entry. Violated: getAgent keeps no record
\* of the creations in flight.
C36_NoDoubleBuild ==
  /\ [](\A sid \in DOMAIN creating : creating[sid] <= 1)
  /\ [][ (poolRet'.outcome = "created" /\ HasWarm(warmAgents, poolRet'.sid)) =>
           poolRet'.agent = warmAgents[PoolIndex(warmAgents, poolRet'.sid, 1)].agent ]_vars

\* ----------------------------------------- ResilientFunction: half-open trial

\* Calls in flight that were admitted as a half-open trial.
Trials == { c \in DOMAIN calls : c.trial }

C35_TimeoutBoundsSequence ==
  /\ [][ /\ settled'.res = TimedOutError =>
              \E c \in DOMAIN calls :
                /\ TimesOut(c)
                /\ settled'.attempts = c.attempts
                /\ settled'.attempts <= retries + 1
         /\ \A c \in DOMAIN calls' : c.attempts <= retries + 1 ]_vars
  /\ (Waiting # {}) ~> (Waiting = {})

\* A call whose caller was timed out is making its last attempt, after a
\* wait.
C35_Witness ==
  \E c \in DOMAIN calls :
    /\ c.caller = "timedOut"
    /\ c.pc = "running"
    /\ c.attempts >= 2
    /\ c.attempts = retries + 1

\* ------------------------------------------------ ResilientFunction: observer

\* C33 (as stated): the observer cannot affect control flow. An execute()
\* that rejects on an error of the kind p-retry retries has made all its
\* retries + 1 attempts and rejects with an error of the wrapped function,
\* whatever the observer does. Violated: a throw of the observer ends the
\* retry loop at once and becomes the error of execute().
C33_ObserverCannotAffect ==
  [][ ( /\ settled'.ev = "rejected"
        /\ settled'.res # TimedOutError
        /\ Len(settled'.errors) >= 1
        /\ Retried(settled'.errors[Len(settled'.errors)]) )
      => /\ settled'.attempts = retries + 1
         /\ settled'.res.src = "fn" ]_vars

\* ------------------------------------------------------ retry backoff: claims

\* C32 (as stated): the wait before retry i (from 0) is
\* min(maxTimeout, minTimeout * factor^i), and the waits of one execute() are
\* strictly increasing and never exceed maxTimeout.
C32_BackoffStrictlyIncreasing ==
  /\ \A i \in 1..Len(waited) :
       /\ waited[i] = Min(retryOptions.maxTimeout,
                          retryOptions.minTimeout * Pow(retryOptions.factor, i - 1))
       /\ waited[i] <= retryOptions.maxTimeout
  /\ \A i \in 1..(Len(waited) - 1) : waited[i] < waited[i + 1]

\* C32 (amended): the waits never exceed maxTimeout and never decrease; with
\* factor >= 1 the wait before retry i is
\* min(maxTimeout, max(minTimeout, 1) * factor^i); and a wait is larger than
\* the one before it when factor >= 2 and the cap is not yet reached.
C32_BackoffCapped ==
  /\ \A i \in 1..Len(waited) :
       /\ waited[i] <= retryOptions.maxTimeout
       /\ retryOptions.factor >= 1 =>
            waited[i] = Min(retryOptions.maxTimeout,
                            Max(retryOptions.minTimeout, 1)
                              * Pow(retryOptions.factor, i - 1))
  /\ \A i \in 1..(Len(waited) - 1) :
       /\ waited[i] <= waited[i + 1]
       /\ (retryOptions.factor >= 2 /\ waited[i + 1] < retryOptions.maxTimeout) =>
            waited[i] < waited[i + 1]

\* Three waits of which the second grew and the third is held at the cap.
C32_Witness ==
  /\ Len(waited) = 3
  /\ waited[1] < waited[2]
  /\ waited[2] = waited[3]
  /\ waited[3] = retryOptions.maxTimeout

\* ---------------------------------------------------------- gateway: claims

\* C28 (as stated): once a session has sent "/provider P [M]", a later
\* message of that session is processed by an agent built for provider P
\* and model M. Violated: the runner keeps the agent it built for the first
\* message of the process and ignores the config of every later call.
C28_ProviderTakesEffect ==
  [][ ( /\ handled' # handled
        /\ gwRet'.path = "message"
        /\ sessions[gwRet'.from].provider # NoProvider )
      => /\ agentInstance'.provider = sessions[gwRet'.from].provider
         /\ agentInstance'.modelId = sessions[gwRet'.from].model_id ]_vars

\* C29 (as stated): every request is answered with exactly one 204: the step
\* that receives it sends one, no later step of its handler sends another,
\* and a request without From or Body starts no agent run and no send.
\* Violated: a request whose form repeats Body throws before any response.
C29_OneResponse ==
  [][ /\ handled' # handled =>
           /\ gwRet'.responses = 1
           /\ gwRet'.path = "missing" =>
                inbound' = inbound /\ agentInstance' = agentInstance
      /\ handled' = handled => gwRet'.responses = 0 ]_vars

====
